---- MODULE Spec2Model ----
(***************************************************************************)
(* Model of the data-ingestion pipeline of film-success-analysis:          *)
(*   - robust_get, fetch_top_movies,                                       *)
(*     fetch_flop_movies          (api_modules/tmdb_api.py)                *)
(*   - get_language_details,                                               *)
(*     fetch_language_market      (api_modules/country_api.py, ombd_api.py)*)
(*   - fetch_gdp_population       (api_modules/world_bank_api.py)          *)
(*   - fetch_latest_value, main   (scripts/fetch_gdp_data.py)              *)
(*   - the CSV files and tables   (pandas to_csv, read_csv, to_sql)        *)
(*   - the training script        (scripts/train_model.py)                 *)
(*   - the table loads            (scripts/data_pipeline.py,               *)
(*                                 scripts/populate_missing_tables.py)     *)
(*   - main                       (run_all.py)                             *)
(*                                                                         *)
(* Python values are modelled as follows.  A str is a sequence of          *)
(* one-character strings ("" is <<>>), so that len, slicing, split and     *)
(* strip are computed.  An optional value is a sequence of length at most  *)
(* one: None is <<>> and a value v is <<v>>.  A JSON field or a cell of a  *)
(* frame is a record [t |-> tag, s |-> its str, n |-> its number].         *)
(*                                                                         *)
(* Each component has its own specification (SpecRobustGet, SpecLanguage,  *)
(* SpecMarket, SpecWorldBank, SpecLatest, SpecIncremental, SpecMovies,     *)
(* SpecLoad, SpecSnapshot, SpecTraining, SpecDataPipeline); the variables  *)
(* of the other components stay at their idle values.  SpecPipeline runs   *)
(* the scripts of run_all.py, with their own actions, on one database and  *)
(* one data directory.                                                     *)
(***************************************************************************)
EXTENDS Integers, Sequences, FiniteSets, TLC

VARIABLES
    \* robust_get
    rg_retries,     \* the `retries` argument
    rg_attempt,     \* the loop variable `attempt`
    rg_log,         \* outcome of every session.get issued so far, in order
    rg_result,      \* the return value (None until a response is returned)
    rg_pc,          \* "loop" | "sleep" | "done"
    \* get_language_details
    gl_code,        \* the argument `code`
    gl_result,      \* None, or the returned pair <<language_name, iso_code>>
    \* fetch_language_market
    lm_resp,        \* what the GeoNames request yields: [ok, data]
    lm_i,           \* index into `data` of the entry the for loop is at
    lm_result,      \* the list `result`
    lm_from,        \* history: for each record of `result`, the index of its entry
    lm_csv,         \* data/language_market.csv: None, or the rows written
    lm_ret,         \* None, or the returned list
    lm_pc,          \* "request" | "loop" | "done"
    \* fetch_gdp_population
    wb_resp,        \* what the World Bank answers, per indicator key
    wb_k,           \* position of the for loop in `indicators`
    wb_data,        \* the dict `data`: code -> values collected so far
    wb_order,       \* insertion order of the keys of `data`
    wb_requests,    \* history: indicator keys requested so far, in order
    wb_enriched,    \* None, or the returned list `enriched`
    wb_pc,          \* "loop" | "done"
    \* fetch_latest_value
    fl_resp,        \* what the World Bank answers to the per-country call
    fl_result,      \* the value returned (None before the call, too)
    fl_pc,          \* "call" | "done"
    \* fetch_gdp_data.main
    fg_table,       \* world_bank_data: iso_code -> None or its row
    fg_table0,      \* history: the table when the run started
    fg_existing,    \* the set `existing`
    fg_idx,         \* position of the for loop in pycountry.countries
    fg_gdp,         \* the local `gdp`
    fg_pop,         \* the local `pop`
    fg_requests,    \* history: the API requests issued and their results, in order
    fg_inserts,     \* history: the codes of the INSERTs executed, in order
    fg_cached,      \* the list `cached`
    fg_pc,          \* "start" | "next" | "pop" | "insert" | "done" | "crashed"
    \* fetch_top_movies / fetch_flop_movies
    tm_kind,        \* "top" | "flop": which of the two functions runs
    tm_key,         \* whether TMDB_API_KEY is set (API_KEY is truthy)
    tm_pages,       \* the `pages` argument
    tm_page,        \* the loop variable `page`
    tm_movies,      \* the list `movies`
    tm_calls,       \* history: the URL of every robust_get call, in order
    tm_hist,        \* history: what every robust_get call came back with
    tm_ret,         \* None, or the returned list
    tm_pc,           \* "start" | "loop" | "done" | "raised"
    \* df = pd.read_csv(file); df.to_sql(table, conn, if_exists="replace")
    tl_table,       \* the table: None (it does not exist), or its columns and rows
    tl_a,           \* history: None, or the frame loaded before the last one
    tl_b,           \* history: None, or the frame loaded last
    tl_n,            \* history: how many loads were attempted
    \* CSV snapshot: DataFrame(records).to_csv, then read_csv
    cs_cols,        \* the keys of the records
    cs_records,     \* the records to save, each a row of cells
    cs_file,        \* None, or the CSV file written
    cs_loaded,      \* None, or the frame read back
    cs_pc,           \* "save" | "load" | "done" | "raised"
    \* train_model.py
    tr_file,        \* data/movies.csv: None (missing), or its rows
    tr_df,          \* the frame `df` after dropna
    tr_k,           \* position of the for loop in `thresholds`
    tr_tried,       \* history: the thresholds tried so far, in order
    tr_selected,    \* None, or the threshold the loop stopped at
    tr_labels,      \* the column df["is_hit"]
    tr_test,        \* history: the rows train_test_split put in the test part
    tr_artifact,    \* ml/hit_predictor.pkl: None, or what was dumped
    tr_artifact0,   \* history: the artifact when the script started
    tr_exit,        \* None, or the exit code of the script
    tr_pc,           \* "load" | "loop" | "fit" | "dump" | "done"
    \* data_pipeline.py
    dp_files,       \* data/: file name -> None (missing), or the CSV file
    dp_db,          \* film.db: table name -> None (no such table), or the table
    dp_db0,         \* history: film.db when the script started
    dp_i,           \* position of the for loop in `tables`
    dp_exit,        \* None, or the exit code of the script
    dp_pc,           \* "loop" | "done"
    \* run_all.main
    pl_i,           \* position of the for loop in PIPELINE_STEPS
    pl_started,     \* history: the scripts started so far, in order
    pl_codes,       \* history: the return codes of the scripts that ended, in order
    pl_inserted,    \* history: the codes the incremental fetch inserted in this run
    pl_dashboard,   \* whether the dashboard was launched
    pl_exit,        \* None, or the exit code of run_all.py
    pl_pc           \* "setup" | "step" | "wait" | "done"

rgVars == <<rg_retries, rg_attempt, rg_log, rg_result, rg_pc>>
glVars == <<gl_code, gl_result>>
lmVars == <<lm_resp, lm_i, lm_result, lm_from, lm_csv, lm_ret, lm_pc>>

wbVars == <<wb_resp, wb_k, wb_data, wb_order, wb_requests, wb_enriched, wb_pc>>
flVars == <<fl_resp, fl_result, fl_pc>>
fgVars == <<fg_table, fg_table0, fg_existing, fg_idx, fg_gdp, fg_pop,
            fg_requests, fg_inserts, fg_cached, fg_pc>>

tmVars == <<tm_kind, tm_key, tm_pages, tm_page, tm_movies, tm_calls, tm_hist,
            tm_ret, tm_pc>>

tlVars == <<tl_table, tl_a, tl_b, tl_n>>

csVars == <<cs_cols, cs_records, cs_file, cs_loaded, cs_pc>>

trVars == <<tr_file, tr_df, tr_k, tr_tried, tr_selected, tr_labels, tr_test,
            tr_artifact, tr_artifact0, tr_exit, tr_pc>>

dpVars == <<dp_files, dp_db, dp_db0, dp_i, dp_exit, dp_pc>>

plVars == <<pl_i, pl_started, pl_codes, pl_inserted, pl_dashboard, pl_exit, pl_pc>>

vars == <<rgVars, glVars, lmVars, wbVars, flVars, fgVars, tmVars, tlVars,
        csVars, trVars, dpVars, plVars>>

\* What each component leaves alone: the state of the others.
RGFrame == UNCHANGED <<glVars, lmVars, wbVars, flVars, fgVars, tmVars,
        tlVars, csVars, trVars, dpVars, plVars>>
GLFrame == UNCHANGED <<rgVars, lmVars, wbVars, flVars, fgVars, tmVars,
        tlVars, csVars, trVars, dpVars, plVars>>
LMFrame == UNCHANGED <<rgVars, glVars, wbVars, flVars, fgVars, tmVars,
        tlVars, csVars, trVars, dpVars, plVars>>
WBFrame == UNCHANGED <<rgVars, glVars, lmVars, flVars, fgVars, tmVars,
        tlVars, csVars, trVars, dpVars, plVars>>
FLFrame == UNCHANGED <<rgVars, glVars, lmVars, wbVars, fgVars, tmVars,
        tlVars, csVars, trVars, dpVars, plVars>>
FGFrame == UNCHANGED <<rgVars, glVars, lmVars, wbVars, flVars, tmVars,
        tlVars, csVars, trVars, dpVars, plVars>>
TMFrame == UNCHANGED <<rgVars, glVars, lmVars, wbVars, flVars, fgVars,
        tlVars, csVars, trVars, dpVars, plVars>>
TLFrame == UNCHANGED <<rgVars, glVars, lmVars, wbVars, flVars, fgVars,
        tmVars, csVars, trVars, dpVars, plVars>>
CSFrame == UNCHANGED <<rgVars, glVars, lmVars, wbVars, flVars, fgVars,
        tmVars, tlVars, trVars, dpVars, plVars>>
TRFrame == UNCHANGED <<rgVars, glVars, lmVars, wbVars, flVars, fgVars,
        tmVars, tlVars, csVars, dpVars, plVars>>
DPFrame == UNCHANGED <<rgVars, glVars, lmVars, wbVars, flVars, fgVars,
        tmVars, tlVars, csVars, trVars, plVars>>

None == <<>>
Some(v) == <<v>>

Range(s) == {s[i] : i \in 1..Len(s)}

\* Sequences over S of length at most n.
SeqUpTo(S, n) == UNION {[1..k -> S] : k \in 0..n}

(***************************************************************************)
(* robust_get(session, url, retries)              tmdb_api.py:33-42        *)
(***************************************************************************)
MaxRetries == 3

\* HTTP status codes the server may answer with (one or two of each class
\* that requests can hand back as a final response).
StatusCodes == {200, 204, 304, 404, 500}

\* What one session.get(url, timeout=30) can do: raise a transport error
\* (timeout, connection error) or hand back a response with a status.
Outcomes == {[err |-> TRUE, status |-> 0]} \cup
            {[err |-> FALSE, status |-> s] : s \in StatusCodes}

\* res.raise_for_status() raises HTTPError exactly for 4xx and 5xx.
RaisesForStatus(status) == 400 <= status /\ status < 600

\* The body of the try block raises: the get itself, or raise_for_status.
AttemptRaises(o) == o.err \/ RaisesForStatus(o.status)

\* Mutant: one attempt more than `retries`.
AttemptsOffByOne(retries) == retries + 1

\* range(retries): the number of iterations of the for loop.
Attempts(retries) == retries

RGInit ==
    /\ rg_retries \in 0..MaxRetries
    /\ rg_attempt = 0
    /\ rg_log = <<>>
    /\ rg_result = None
    /\ rg_pc = "loop"

RGIdle ==
    /\ rg_retries = 0
    /\ rg_attempt = 0
    /\ rg_log = <<>>
    /\ rg_result = None
    /\ rg_pc = "done"

\* One pass through the try block: the request is issued; on success the
\* response is returned at once, otherwise the except branch is entered.
RG_Get ==
    /\ rg_pc = "loop"
    /\ rg_attempt < Attempts(rg_retries)
    /\ \E o \in Outcomes :
        /\ rg_log' = Append(rg_log, o)
        /\ IF AttemptRaises(o)
           THEN /\ rg_pc' = "sleep"
                /\ UNCHANGED rg_result
           ELSE /\ rg_result' = Some([attempt |-> rg_attempt + 1, status |-> o.status])
                /\ rg_pc' = "done"
    /\ UNCHANGED <<rg_retries, rg_attempt>>
    /\ RGFrame

\* except: print, time.sleep(1), next iteration.
RG_Sleep ==
    /\ rg_pc = "sleep"
    /\ rg_attempt' = rg_attempt + 1
    /\ rg_pc' = "loop"
    /\ UNCHANGED <<rg_retries, rg_log, rg_result>>
    /\ RGFrame

\* The loop is exhausted: return None.
RG_GiveUp ==
    /\ rg_pc = "loop"
    /\ rg_attempt >= Attempts(rg_retries)
    /\ rg_result' = None
    /\ rg_pc' = "done"
    /\ UNCHANGED <<rg_retries, rg_attempt, rg_log>>
    /\ RGFrame

RGNext == RG_Get \/ RG_Sleep \/ RG_GiveUp

(***************************************************************************)
(* Python str operations used by country_api.py                            *)
(***************************************************************************)
Min(a, b) == IF a <= b THEN a ELSE b

\* str.strip(): leading and trailing whitespace removed.
IsSpace(c) == c = " "

RECURSIVE LStrip(_)
LStrip(s) == IF s /= <<>> /\ IsSpace(Head(s)) THEN LStrip(Tail(s)) ELSE s

RECURSIVE RStrip(_)
RStrip(s) ==
    IF s /= <<>> /\ IsSpace(s[Len(s)]) THEN RStrip(SubSeq(s, 1, Len(s) - 1)) ELSE s

Strip(s) == RStrip(LStrip(s))

\* str.split(","): the pieces between the commas; "" splits into [""].
RECURSIVE SplitFrom(_, _)
SplitFrom(s, piece) ==
    IF s = <<>> THEN <<piece>>
    ELSE IF Head(s) = "," THEN <<piece>> \o SplitFrom(Tail(s), <<>>)
    ELSE SplitFrom(Tail(s), Append(piece, Head(s)))

Split(s) == SplitFrom(s, <<>>)

\* code[:2]
Slice2(code) == SubSeq(code, 1, Min(2, Len(code)))

\* int(str): surrounding whitespace is ignored, the rest must be digits.
Digits == <<"0", "1", "2", "3", "4", "5", "6", "7", "8", "9">>

IsNumeric(s) == Strip(s) /= <<>> /\ \A i \in 1..Len(Strip(s)) : Strip(s)[i] \in Range(Digits)

DigitValue(c) == (CHOOSE k \in 1..Len(Digits) : Digits[k] = c) - 1

RECURSIVE ParseDigits(_)
ParseDigits(s) ==
    IF s = <<>> THEN 0
    ELSE ParseDigits(SubSeq(s, 1, Len(s) - 1)) * Len(Digits) + DigitValue(s[Len(s)])

ParseInt(s) == ParseDigits(Strip(s))

\* str(int) for a non-negative int, as to_csv writes it.
RECURSIVE IntToStr(_)
IntToStr(n) ==
    IF n < Len(Digits) THEN <<Digits[n + 1]>>
    ELSE Append(IntToStr(n \div Len(Digits)), Digits[(n % Len(Digits)) + 1])

(***************************************************************************)
(* get_language_details(code)    country_api.py:6-17, ombd_api.py:6-19     *)
(***************************************************************************)
MaxCodeLen == 3

\* The characters language codes and language lists are made of here.
LangChars == {"e", "n", "-", ",", " "}

Unknown == "Unknown"
UnknownCode == <<"U", "n", "k", "n", "o", "w", "n">>

\* The static table pycountry.languages indexes by alpha_2: two entries of it.
Alpha2Table == (<<"e", "n">> :> "English") @@ (<<"n", "e">> :> "Nepali")

\* pycountry.languages.get(alpha_2=key): the table's entry, or nothing.
LanguagesGet(key) == IF key \in DOMAIN Alpha2Table THEN Some(Alpha2Table[key]) ELSE None

\* Mutant: the lookup uses the whole code, not its first two characters.
get_language_details_noslice(code) ==
    IF LanguagesGet(code) /= None
    THEN <<LanguagesGet(code)[1], code>>
    ELSE <<Unknown, code>>

\* Mutant: an unresolved code is replaced by the sentinel.
get_language_details_sentinel(code) ==
    IF LanguagesGet(Slice2(code)) /= None
    THEN <<LanguagesGet(Slice2(code))[1], Slice2(code)>>
    ELSE <<Unknown, UnknownCode>>

\* Returns <<language_name, iso_code>>.
get_language_details(code) ==
    IF LanguagesGet(Slice2(code)) /= None
    THEN <<LanguagesGet(Slice2(code))[1], Slice2(code)>>
    ELSE <<Unknown, code>>

Codes == SeqUpTo(LangChars, MaxCodeLen) \cup {UnknownCode}

GLInit ==
    /\ gl_code \in Codes
    /\ gl_result = None

GLIdle ==
    /\ gl_code = <<>>
    /\ gl_result = None

GL_Call ==
    /\ gl_result = None
    /\ gl_result' = Some(get_language_details(gl_code))
    /\ UNCHANGED gl_code
    /\ GLFrame

GLNext == GL_Call

(***************************************************************************)
(* fetch_language_market()                       country_api.py:19-80      *)
(***************************************************************************)
MaxCountries == 3
MaxLangLen == 3

\* JSON values of a GeoNames entry's fields.
JStr(s) == [t |-> "str", s |-> s, n |-> 0]
JInt(n) == [t |-> "int", s |-> <<>>, n |-> n]
JNull == [t |-> "null", s |-> <<>>, n |-> 0]
JMissing == [t |-> "missing", s |-> <<>>, n |-> 0]

\* dict.get(key, default)
Get(field, default) == IF field.t = "missing" THEN default ELSE field

\* Truth value of a JSON value (`not languages`).
Truthy(x) ==
    CASE x.t = "str" -> x.s /= <<>>
      [] x.t = "int" -> x.n /= 0
      [] OTHER -> FALSE

\* int(x) returns (int and numeric str) or raises (TypeError, ValueError).
IntOk(x) == x.t = "int" \/ (x.t = "str" /\ IsNumeric(x.s))
IntOf(x) == IF x.t = "int" THEN x.n ELSE ParseInt(x.s)

\* [lang.strip() for lang in languages.split(",") if lang.strip()]
StrippedCodes(languages) ==
    LET pieces == Split(languages)
        stripped == [k \in 1..Len(pieces) |-> Strip(pieces[k])]
    IN SelectSeq(stripped, LAMBDA c : c /= <<>>)

\* Mutant: no ["Unknown"] fallback for a list without codes.
LanguageListNoFallback(languages) == StrippedCodes(languages)

\* language_list, with the ["Unknown"] fallback of lines 53-55.
LanguageList(languages) ==
    IF StrippedCodes(languages) = <<>> THEN <<UnknownCode>> ELSE StrippedCodes(languages)

\* The body of the for loop for one entry: whether it raised (and was caught
\* by the except branch) and the records it appended to `result`.  Every
\* statement that can raise precedes the first append.
ProcessEntry(country) ==
    LET name_f == Get(country.countryName, JStr(<<>>))
        capital_f == Get(country.capital, JStr(<<>>))
        population_f == Get(country.population, JInt(0))
        languages == Get(country.languages, JStr(<<>>))
        raisedEarly == \/ ~country.isdict
                       \/ name_f.t /= "str"
                       \/ capital_f.t /= "str"
                       \/ ~IntOk(population_f)
        name == Strip(name_f.s)
        skipped == name = <<>> \/ ~Truthy(languages)
        raisedSplit == ~skipped /\ languages.t /= "str"
        list == LanguageList(languages.s)
        Record(code) ==
            [country |-> name,
             capital |-> Strip(capital_f.s),
             language_code |-> get_language_details(code)[2],
             language |-> get_language_details(code)[1],
             population |-> IntOf(population_f)]
    IN IF raisedEarly \/ raisedSplit THEN [raised |-> TRUE, records |-> <<>>]
       ELSE IF skipped THEN [raised |-> FALSE, records |-> <<>>]
       ELSE [raised |-> FALSE, records |-> [k \in 1..Len(list) |-> Record(list[k])]]

\* Mutant: the except branch leaves the loop instead of continuing.
AfterErrorBreak(i, n) == n + 1

\* except ...: continue -- the loop goes on with the next entry.
AfterError(i, n) == i + 1

\* df.to_csv(output_path, index=False): one row of text fields per record.
ToCsv(result) ==
    [k \in 1..Len(result) |->
        [country |-> result[k].country,
         capital |-> result[k].capital,
         language_code |-> result[k].language_code,
         language |-> result[k].language,
         population |-> IntToStr(result[k].population)]]

Entry(name, capital, population, languages) ==
    [isdict |-> TRUE, countryName |-> name, capital |-> capital,
     population |-> population, languages |-> languages]

NotADict ==
    [isdict |-> FALSE, countryName |-> JMissing, capital |-> JMissing,
     population |-> JMissing, languages |-> JMissing]

\* Entries a payload of several countries is made of: well-formed ones (two
\* of them with the same country name), skipped ones and malformed ones.
RepEntries ==
    { Entry(JStr(<<"A">>), JStr(<<"K">>), JStr(<<"5">>), JStr(<<"e", "n", ",", "n", "e">>)),
      Entry(JStr(<<"B">>), JMissing, JInt(7), JStr(<<"e", "n", "-", ",", "e", "n">>)),
      Entry(JStr(<<"A">>), JStr(<<>>), JInt(9), JStr(<<"-", "n", "e">>)),
      Entry(JNull, JStr(<<"K">>), JInt(7), JStr(<<"e", "n">>)),
      Entry(JStr(<<"B">>), JStr(<<"K">>), JStr(<<"e">>), JStr(<<"n", "e">>)),
      NotADict,
      Entry(JStr(<<"B">>), JStr(<<"K">>), JInt(7), JMissing),
      Entry(JStr(<<"B">>), JStr(<<"K">>), JInt(7), JInt(5)),
      Entry(JStr(<<"B">>), JStr(<<"K">>), JInt(7), JStr(<<" ", ",">>)) }

\* Entries of a one-country payload: every language string up to MaxLangLen,
\* and the remaining shapes of the other fields.
SingleEntries ==
    { Entry(JStr(<<"A">>), JStr(<<>>), JInt(5), JStr(l)) : l \in SeqUpTo(LangChars, MaxLangLen) }
    \cup
    { Entry(JStr(<<" ">>), JStr(<<"K">>), JInt(5), JStr(<<"e", "n">>)),
      Entry(JMissing, JStr(<<"K">>), JInt(5), JStr(<<"e", "n">>)),
      Entry(JStr(<<"A">>), JNull, JInt(5), JStr(<<"e", "n">>)),
      Entry(JStr(<<"A">>), JStr(<<"K">>), JNull, JStr(<<"e", "n">>)),
      Entry(JStr(<<"A">>), JStr(<<"K">>), JMissing, JStr(<<"e", "n">>)),
      Entry(JStr(<<"A">>), JStr(<<"K">>), JStr(<<" ", "1", "2">>), JStr(<<"e", "n">>)),
      Entry(JStr(<<"A">>), JStr(<<"K">>), JInt(5), JNull),
      Entry(JStr(<<"A">>), JStr(<<"K">>), JInt(5), JInt(0)),
      Entry(JStr(<<>>), JStr(<<"K">>), JInt(5), JInt(5)) }

Payloads == SeqUpTo(RepEntries, MaxCountries) \cup {<<e>> : e \in SingleEntries}

\* The request of lines 29-36 either raises (transport error, 4xx/5xx, a body
\* that is no JSON object) or yields the list under "geonames".
MarketResponses ==
    {[ok |-> FALSE, data |-> <<>>]} \cup {[ok |-> TRUE, data |-> d] : d \in Payloads}

\* A snapshot left by an earlier run.
PriorCsv ==
    <<[country |-> <<"Z">>, capital |-> <<>>, language_code |-> <<"e", "n">>,
       language |-> "English", population |-> <<"1">>]>>

LMInit ==
    /\ lm_resp \in MarketResponses
    /\ lm_i = 1
    /\ lm_result = <<>>
    /\ lm_from = <<>>
    /\ lm_csv \in {None, Some(PriorCsv)}
    /\ lm_ret = None
    /\ lm_pc = "request"

LMIdle ==
    /\ lm_resp = [ok |-> FALSE, data |-> <<>>]
    /\ lm_i = 1
    /\ lm_result = <<>>
    /\ lm_from = <<>>
    /\ lm_csv = None
    /\ lm_ret = None
    /\ lm_pc = "done"

\* The request failed: print, return [] (nothing is written).
LM_RequestFailed ==
    /\ lm_pc = "request"
    /\ ~lm_resp.ok
    /\ lm_ret' = Some(<<>>)
    /\ lm_pc' = "done"
    /\ UNCHANGED <<lm_resp, lm_i, lm_result, lm_from, lm_csv>>
    /\ LMFrame

\* The request succeeded: result = [], the loop starts.
LM_RequestOk ==
    /\ lm_pc = "request"
    /\ lm_resp.ok
    /\ lm_pc' = "loop"
    /\ UNCHANGED <<lm_resp, lm_i, lm_result, lm_from, lm_csv, lm_ret>>
    /\ LMFrame

\* One iteration of `for country in data`.
LM_Entry ==
    /\ lm_pc = "loop"
    /\ lm_i <= Len(lm_resp.data)
    /\ LET out == ProcessEntry(lm_resp.data[lm_i])
       IN IF out.raised
          THEN /\ lm_i' = AfterError(lm_i, Len(lm_resp.data))
               /\ UNCHANGED <<lm_result, lm_from>>
          ELSE /\ lm_i' = lm_i + 1
               /\ lm_result' = lm_result \o out.records
               /\ lm_from' = lm_from \o [k \in 1..Len(out.records) |-> lm_i]
    /\ UNCHANGED <<lm_resp, lm_csv, lm_ret, lm_pc>>
    /\ LMFrame

\* Mutant: the snapshot is written only when there are records.
SnapshotAfterSaveIfAny(csv, result) ==
    IF result = <<>> THEN csv ELSE Some(ToCsv(result))

\* df.to_csv(output_path, index=False) overwrites whatever the file held.
SnapshotAfterSave(csv, result) == Some(ToCsv(result))

\* After the loop: the snapshot is written and the list returned.
LM_Save ==
    /\ lm_pc = "loop"
    /\ lm_i > Len(lm_resp.data)
    /\ lm_csv' = SnapshotAfterSave(lm_csv, lm_result)
    /\ lm_ret' = Some(lm_result)
    /\ lm_pc' = "done"
    /\ UNCHANGED <<lm_resp, lm_i, lm_result, lm_from>>
    /\ LMFrame

LMNext == LM_RequestFailed \/ LM_RequestOk \/ LM_Entry \/ LM_Save

(***************************************************************************)
(* fetch_gdp_population()                        world_bank_api.py:27-76   *)
(***************************************************************************)
MaxWBRows == 2

\* The keys of `indicators`, in the order the dict is iterated.
Indicators == <<"gdp", "population">>

\* Entries of json_data[1]: a country code ("" stands for an empty or absent
\* countryiso3code, as the aggregates have) and a value that may be null.
WBEntries ==
    { [code |-> "USA", value |-> Some(5)],
      [code |-> "USA", value |-> Some(0)],
      [code |-> "USA", value |-> None],
      [code |-> "FRA", value |-> Some(7)],
      [code |-> "FRA", value |-> None],
      [code |-> "", value |-> Some(5)] }

\* robust_world_bank_request returns None ("fail"), or the body is a list
\* shorter than two ("short"), or json_data[1] is null or [] ("empty"), or it
\* is a list of entries ("rows").
WBResponses ==
    { [kind |-> k, rows |-> <<>>] : k \in {"fail", "short", "empty"} }
    \cup
    { [kind |-> "rows", rows |-> r] : r \in SeqUpTo(WBEntries, MaxWBRows) \ {<<>>} }

\* A fresh inner dict: no key set (values.get(key) gives None).
EmptyValues == [gdp |-> None, population |-> None]

\* Mutant: the value is tested for truth, which drops a value of 0.
StoresEntryTruthy(code, value) == code /= "" /\ value /= None /\ value /= Some(0)

\* if code and value is not None
StoresEntry(code, value) == code /= "" /\ value /= None

\* Lines 63-65 for one entry: data[code][key] = value.
StoreValue(st, key, entry) ==
    IF ~StoresEntry(entry.code, entry.value) THEN st
    ELSE IF entry.code \in DOMAIN st.data
    THEN [st EXCEPT !.data[entry.code][key] = entry.value]
    ELSE [data |-> st.data @@ (entry.code :> [EmptyValues EXCEPT ![key] = entry.value]),
          order |-> Append(st.order, entry.code)]

\* for entry in json_data[1]
RECURSIVE StoreRows(_, _, _)
StoreRows(st, key, rows) ==
    IF rows = <<>> THEN st
    ELSE StoreRows(StoreValue(st, key, Head(rows)), key, Tail(rows))

\* Mutant: a failed indicator ends the loop.
AfterSkippedIndicatorBreak(k) == Len(Indicators) + 1

\* `continue` after a failed request or an empty/short payload.
AfterSkippedIndicator(k) == k + 1

\* The dict with no key.
EmptyDict == [c \in {} |-> EmptyValues]

WBInit ==
    /\ wb_resp \in [Range(Indicators) -> WBResponses]
    /\ wb_k = 1
    /\ wb_data = EmptyDict
    /\ wb_order = <<>>
    /\ wb_requests = <<>>
    /\ wb_enriched = None
    /\ wb_pc = "loop"

WBIdle ==
    /\ wb_resp = [key \in Range(Indicators) |-> [kind |-> "fail", rows |-> <<>>]]
    /\ wb_k = 1
    /\ wb_data = EmptyDict
    /\ wb_order = <<>>
    /\ wb_requests = <<>>
    /\ wb_enriched = None
    /\ wb_pc = "done"

\* One iteration of `for key, indicator in indicators.items()`.
WB_Indicator ==
    /\ wb_pc = "loop"
    /\ wb_k <= Len(Indicators)
    /\ LET key == Indicators[wb_k]
           res == wb_resp[key]
           st == StoreRows([data |-> wb_data, order |-> wb_order], key, res.rows)
       IN /\ wb_requests' = Append(wb_requests, key)
          /\ IF res.kind /= "rows"
             THEN /\ wb_k' = AfterSkippedIndicator(wb_k)
                  /\ UNCHANGED <<wb_data, wb_order>>
             ELSE /\ wb_k' = wb_k + 1
                  /\ wb_data' = st.data
                  /\ wb_order' = st.order
    /\ UNCHANGED <<wb_resp, wb_enriched, wb_pc>>
    /\ WBFrame

\* Lines 67-76: the dict is turned into the list of records and returned.
WB_Format ==
    /\ wb_pc = "loop"
    /\ wb_k > Len(Indicators)
    /\ wb_enriched' = Some([i \in 1..Len(wb_order) |->
                              [iso_code |-> wb_order[i],
                               gdp |-> wb_data[wb_order[i]].gdp,
                               population_gdp |-> wb_data[wb_order[i]].population]])
    /\ wb_pc' = "done"
    /\ UNCHANGED <<wb_resp, wb_k, wb_data, wb_order, wb_requests>>
    /\ WBFrame

WBNext == WB_Indicator \/ WB_Format

(***************************************************************************)
(* fetch_latest_value(api_url, code)             fetch_gdp_data.py:30-51   *)
(***************************************************************************)
MaxRows == 2

YEAR == 2023

\* float(x) and int(x) of a number: the value with its Python type.
Float(n) == [type |-> "float", val |-> n]
IntOfFloat(f) == [type |-> "int", val |-> f.val]

\* A row of data[1]: its value (null or a number) and its date, which int()
\* parses to a year or rejects.
LatestRows ==
    { [value |-> v, date |-> d] :
        v \in {None, Some(0), Some(3)},
        d \in { [ok |-> TRUE, year |-> YEAR], [ok |-> TRUE, year |-> YEAR - 1],
                [ok |-> FALSE, year |-> 0] } }

\* The request raises ("fail"), the body is falsy ("falsy") or shorter than
\* two ("short"), data[1] is falsy ("empty"), or it is a list of rows.
LatestResponses ==
    { [kind |-> k, rows |-> <<>>] : k \in {"fail", "falsy", "short", "empty"} }
    \cup
    { [kind |-> "rows", rows |-> r] : r \in SeqUpTo(LatestRows, MaxRows) \ {<<>>} }

\* Mutant: the first row of the target year decides, null value or not.
RECURSIVE FirstOfYearAnyValue(_)
FirstOfYearAnyValue(rows) ==
    IF rows = <<>> THEN None
    ELSE IF ~Head(rows).date.ok THEN None
    ELSE IF Head(rows).date.year = YEAR
    THEN (IF Head(rows).value = None THEN None ELSE Some(Float(Head(rows).value[1])))
    ELSE FirstOfYearAnyValue(Tail(rows))

\* Lines 45-48: the loop over data[1].  A row with a null value is passed
\* over before its date is looked at; int() of an unparsable date raises,
\* which the except branch turns into None.
RECURSIVE FirstOfYear(_)
FirstOfYear(rows) ==
    IF rows = <<>> THEN None
    ELSE IF Head(rows).value = None THEN FirstOfYear(Tail(rows))
    ELSE IF ~Head(rows).date.ok THEN None
    ELSE IF Head(rows).date.year = YEAR THEN Some(Float(Head(rows).value[1]))
    ELSE FirstOfYear(Tail(rows))

fetch_latest_value(resp) ==
    IF resp.kind /= "rows" THEN None ELSE FirstOfYear(resp.rows)

FLInit ==
    /\ fl_resp \in LatestResponses
    /\ fl_result = None
    /\ fl_pc = "call"

FLIdle ==
    /\ fl_resp = [kind |-> "fail", rows |-> <<>>]
    /\ fl_result = None
    /\ fl_pc = "done"

FL_Call ==
    /\ fl_pc = "call"
    /\ fl_result' = fetch_latest_value(fl_resp)
    /\ fl_pc' = "done"
    /\ UNCHANGED fl_resp
    /\ FLFrame

FLNext == FL_Call

(***************************************************************************)
(* main()                                        fetch_gdp_data.py:55-105  *)
(***************************************************************************)
\* pycountry.countries, in its order: the alpha_3 codes of three of them.
Countries == <<"ABW", "AFG", "AGO">>

GDP_API == "NY.GDP.MKTP.CD"
POP_API == "SP.POP.TOTL"

\* Rows an earlier run may have left in world_bank_data.
PriorRows ==
    { [gdp |-> Some(Float(1)), population_gdp |-> Some(IntOfFloat(Float(2)))],
      [gdp |-> None, population_gdp |-> Some(IntOfFloat(Float(0)))] }

\* Mutant: nothing is skipped.
SkipsNothing(code, existing) == FALSE

\* if code in existing: continue
Skips(code, existing) == code \in existing

\* Mutant: a missing population is stored as 0.
StoredPopulationOrZero(pop) ==
    IF pop /= None THEN Some(IntOfFloat(pop[1])) ELSE Some(IntOfFloat(Float(0)))

\* int(pop) if pop is not None else None
StoredPopulation(pop) == IF pop /= None THEN Some(IntOfFloat(pop[1])) ELSE None

FGInit ==
    /\ fg_table \in [Range(Countries) -> {None} \cup {Some(r) : r \in PriorRows}]
    /\ fg_table0 = fg_table
    /\ fg_existing = {}
    /\ fg_idx = 1
    /\ fg_gdp = None
    /\ fg_pop = None
    /\ fg_requests = <<>>
    /\ fg_inserts = <<>>
    /\ fg_cached = <<>>
    /\ fg_pc = "start"

FGIdle ==
    /\ fg_table = [c \in Range(Countries) |-> None]
    /\ fg_table0 = fg_table
    /\ fg_existing = {}
    /\ fg_idx = 1
    /\ fg_gdp = None
    /\ fg_pop = None
    /\ fg_requests = <<>>
    /\ fg_inserts = <<>>
    /\ fg_cached = <<>>
    /\ fg_pc = "done"

\* Lines 57-70: the table is created if missing and `existing` is read.
FG_Start ==
    /\ fg_pc = "start"
    /\ fg_existing' = {c \in DOMAIN fg_table : fg_table[c] /= None}
    /\ fg_pc' = "next"
    /\ UNCHANGED <<fg_table, fg_table0, fg_idx, fg_gdp, fg_pop, fg_requests,
                   fg_inserts, fg_cached>>
    /\ FGFrame

\* Top of the loop for a country that is skipped.
FG_Skip ==
    /\ fg_pc = "next"
    /\ fg_idx <= Len(Countries)
    /\ Skips(Countries[fg_idx], fg_existing)
    /\ fg_idx' = fg_idx + 1
    /\ UNCHANGED <<fg_table, fg_table0, fg_existing, fg_gdp, fg_pop, fg_requests,
                   fg_inserts, fg_cached, fg_pc>>
    /\ FGFrame

\* gdp = fetch_latest_value(GDP_API, code); time.sleep(0.05)
FG_FetchGdp ==
    /\ fg_pc = "next"
    /\ fg_idx <= Len(Countries)
    /\ ~Skips(Countries[fg_idx], fg_existing)
    /\ \E resp \in LatestResponses :
        /\ fg_gdp' = fetch_latest_value(resp)
        /\ fg_requests' = Append(fg_requests,
                [api |-> GDP_API, code |-> Countries[fg_idx],
                 value |-> fetch_latest_value(resp)])
    /\ fg_pc' = "pop"
    /\ UNCHANGED <<fg_table, fg_table0, fg_existing, fg_idx, fg_pop, fg_inserts,
                   fg_cached>>
    /\ FGFrame

\* pop = fetch_latest_value(POP_API, code); time.sleep(0.05)
FG_FetchPop ==
    /\ fg_pc = "pop"
    /\ \E resp \in LatestResponses :
        /\ fg_pop' = fetch_latest_value(resp)
        /\ fg_requests' = Append(fg_requests,
                [api |-> POP_API, code |-> Countries[fg_idx],
                 value |-> fetch_latest_value(resp)])
    /\ fg_pc' = "insert"
    /\ UNCHANGED <<fg_table, fg_table0, fg_existing, fg_idx, fg_gdp, fg_inserts,
                   fg_cached>>
    /\ FGFrame

\* Lines 86-95: the INSERT (iso_code is the primary key: a second row for a
\* code raises IntegrityError, which nothing catches), commit, cached.append.
FG_Insert ==
    /\ fg_pc = "insert"
    /\ LET code == Countries[fg_idx]
           row == [gdp |-> fg_gdp, population_gdp |-> StoredPopulation(fg_pop)]
       IN IF fg_gdp /= None \/ fg_pop /= None
          THEN /\ fg_inserts' = Append(fg_inserts, code)
               /\ IF fg_table[code] /= None
                  THEN /\ fg_pc' = "crashed"
                       /\ UNCHANGED <<fg_table, fg_cached, fg_idx>>
                  ELSE /\ fg_table' = [fg_table EXCEPT ![code] = Some(row)]
                       /\ fg_cached' = Append(fg_cached,
                               [iso_code |-> code, gdp |-> fg_gdp, population_gdp |-> fg_pop])
                       /\ fg_idx' = fg_idx + 1
                       /\ fg_pc' = "next"
          ELSE /\ fg_idx' = fg_idx + 1
               /\ fg_pc' = "next"
               /\ UNCHANGED <<fg_table, fg_inserts, fg_cached>>
    /\ UNCHANGED <<fg_table0, fg_existing, fg_gdp, fg_pop, fg_requests>>
    /\ FGFrame

\* After the loop: the cache file is written if anything was added, close.
FG_Finish ==
    /\ fg_pc = "next"
    /\ fg_idx > Len(Countries)
    /\ fg_pc' = "done"
    /\ UNCHANGED <<fg_table, fg_table0, fg_existing, fg_idx, fg_gdp, fg_pop,
                   fg_requests, fg_inserts, fg_cached>>
    /\ FGFrame

FGNext == FG_Start \/ FG_Skip \/ FG_FetchGdp \/ FG_FetchPop \/ FG_Insert \/ FG_Finish

(***************************************************************************)
(* fetch_top_movies(pages) / fetch_flop_movies(pages)  tmdb_api.py:45-91   *)
(***************************************************************************)
MaxPages == 2

\* robust_get's default for `retries`.
DefaultRetries == 2

\* robust_get as a function of what the successive session.get calls do:
\* the response of the first attempt that does not raise, None when every
\* one of the range(retries) attempts raises.
RECURSIVE RobustGetFrom(_, _, _)
RobustGetFrom(outs, attempt, retries) ==
    IF attempt >= Attempts(retries) THEN None
    ELSE IF AttemptRaises(outs[attempt + 1])
         THEN RobustGetFrom(outs, attempt + 1, retries)
         ELSE Some([attempt |-> attempt + 1, status |-> outs[attempt + 1].status])

\* The `results` lists a page may carry (movies are named by a letter).
ResultLists == {<<>>, <<"a">>, <<"b", "c">>}

\* The body of a response: not JSON at all (res.json() raises), a JSON
\* object without the key "results", or one with a list under it.
PageBodies ==
    {[json |-> FALSE, has |-> FALSE, results |-> <<>>],
     [json |-> TRUE, has |-> FALSE, results |-> <<>>]} \cup
    {[json |-> TRUE, has |-> TRUE, results |-> r] : r \in ResultLists}

\* The discover URL: sort order, page number, and the vote_count.gte filter
\* that only fetch_flop_movies sends.
DiscoverUrl(kind, page) ==
    [sort |-> IF kind = "top" THEN "revenue.desc" ELSE "revenue.asc",
     page |-> page,
     vote_count_gte |-> IF kind = "top" THEN None ELSE Some(10)]

\* Mutant: a failed page ends the loop.
AfterFailedPageBreak(page, pages) == pages + 1

\* else: print, and the for loop goes on with the next page.
AfterFailedPage(page, pages) == page + 1

TMInit ==
    /\ tm_kind \in {"top", "flop"}
    /\ tm_key \in BOOLEAN
    /\ tm_pages \in 0..MaxPages
    /\ tm_page = 1
    /\ tm_movies = <<>>
    /\ tm_calls = <<>>
    /\ tm_hist = <<>>
    /\ tm_ret = None
    /\ tm_pc = "start"

TMIdle ==
    /\ tm_kind = "top"
    /\ tm_key = FALSE
    /\ tm_pages = 0
    /\ tm_page = 1
    /\ tm_movies = <<>>
    /\ tm_calls = <<>>
    /\ tm_hist = <<>>
    /\ tm_ret = None
    /\ tm_pc = "done"

\* if not API_KEY: print and return []; otherwise a session is created and
\* the loop starts with an empty list.
TM_Start ==
    /\ tm_pc = "start"
    /\ IF ~tm_key
       THEN /\ tm_ret' = Some(<<>>)
            /\ tm_pc' = "done"
       ELSE /\ tm_pc' = "loop"
            /\ UNCHANGED tm_ret
    /\ UNCHANGED <<tm_kind, tm_key, tm_pages, tm_page, tm_movies, tm_calls, tm_hist>>
    /\ TMFrame

\* One iteration of `for page in range(1, pages + 1)`: robust_get with the
\* default retries, then the if/else on its result.
TM_Page ==
    /\ tm_pc = "loop"
    /\ tm_page <= tm_pages
    /\ \E outs \in [1..DefaultRetries -> Outcomes], body \in PageBodies :
        LET res == RobustGetFrom(outs, 0, DefaultRetries) IN
        /\ tm_calls' = Append(tm_calls, DiscoverUrl(tm_kind, tm_page))
        /\ tm_hist' = Append(tm_hist, [page |-> tm_page, res |-> res,
                          body |-> IF res = None THEN None ELSE Some(body)])
        /\ IF res = None
           THEN /\ tm_page' = AfterFailedPage(tm_page, tm_pages)
                /\ UNCHANGED <<tm_movies, tm_pc>>
           ELSE IF ~body.json
           THEN \* res.json() raises out of the function
                /\ tm_pc' = "raised"
                /\ UNCHANGED <<tm_movies, tm_page>>
           ELSE /\ tm_movies' = IF body.has THEN tm_movies \o body.results
                                ELSE tm_movies
                /\ tm_page' = tm_page + 1
                /\ UNCHANGED tm_pc
    /\ UNCHANGED <<tm_kind, tm_key, tm_pages, tm_ret>>
    /\ TMFrame

\* The range is exhausted: return movies.
TM_Return ==
    /\ tm_pc = "loop"
    /\ tm_page > tm_pages
    /\ tm_ret' = Some(tm_movies)
    /\ tm_pc' = "done"
    /\ UNCHANGED <<tm_kind, tm_key, tm_pages, tm_page, tm_movies, tm_calls, tm_hist>>
    /\ TMFrame

TMNext == TM_Start \/ TM_Page \/ TM_Return

(***************************************************************************)
(* pandas frames, CSV files and SQLite tables                              *)
(*   pd.DataFrame(records).to_csv(path, index=False)                       *)
(*   pd.read_csv(path); df.to_sql(table, conn, if_exists="replace")        *)
(* A cell is a [t, s, n] value: a str, an int, a float (whole numbers      *)
(* only), None, or NaN.  A frame and a table are [cols, rows] with rows of *)
(* cells; a CSV file is [cols, rows] with rows of text fields.             *)
(***************************************************************************)
JFloat(n) == [t |-> "float", s |-> <<>>, n |-> n]
NaN == [t |-> "nan", s |-> <<>>, n |-> 0]

\* repr of a whole float, as to_csv writes it: "3.0".
FloatToStr(n) == IntToStr(n) \o <<".", "0">>

\* Fields read_csv takes for a missing value (na_values defaults in use).
NaValues ==
    { <<>>, <<"N", "A">>, <<"N", "a", "N">>, <<"n", "a", "n">>,
      <<"N", "U", "L", "L">>, <<"n", "u", "l", "l">>, <<"N", "o", "n", "e">>,
      <<"N", "/", "A">>, <<"n", "/", "a">>, <<"<", "N", "A", ">">>,
      <<"#", "N", "/", "A">>, <<"#", "N", "A">> }

IsIntText(text) == IsNumeric(text)

IsFloatText(text) ==
    /\ Len(text) >= 3
    /\ SubSeq(text, Len(text) - 1, Len(text)) = <<".", "0">>
    /\ \A i \in 1..(Len(text) - 2) : text[i] \in Range(Digits)

FloatOfText(text) ==
    IF IsFloatText(text) THEN ParseDigits(SubSeq(text, 1, Len(text) - 2))
    ELSE ParseInt(text)

Column(rows, j) == [i \in 1..Len(rows) |-> rows[i][j]]

\* The rows of a frame given its columns (each a sequence of n cells).
RowsOf(columns, n) ==
    [i \in 1..n |-> [j \in 1..Len(columns) |-> columns[j][i]]]

\* pd.DataFrame(list of dicts), one column: ints and floats next to each
\* other or next to None become float64 with NaN; anything else is kept.
CoerceColumn(cells) ==
    LET idx == 1..Len(cells)
        nums == {i \in idx : cells[i].t \in {"int", "float"}}
        others == {i \in idx : cells[i].t \notin {"int", "float", "null"}}
        allInt == \A i \in idx : cells[i].t = "int"
    IN IF nums /= {} /\ others = {} /\ ~allInt
       THEN [i \in idx |-> IF cells[i].t = "null" THEN NaN ELSE JFloat(cells[i].n)]
       ELSE cells

\* pd.DataFrame(records) for records with the keys `cols`; the empty list
\* gives a frame without columns.
DataFrame(cols, records) ==
    IF records = <<>> THEN [cols |-> <<>>, rows |-> <<>>]
    ELSE [cols |-> cols,
          rows |-> RowsOf([j \in 1..Len(cols) |-> CoerceColumn(Column(records, j))],
                          Len(records))]

\* One field of the file: str as it is (quoting is undone on reading), numbers
\* by str/repr, None and NaN as the empty field (na_rep="").
CellText(c) ==
    CASE c.t = "str" -> c.s
      [] c.t = "int" -> IntToStr(c.n)
      [] c.t = "float" -> FloatToStr(c.n)
      [] OTHER -> <<>>

\* df.to_csv(path, index=False): a header line and one line per row.
DataFrameToCsv(df) ==
    [cols |-> df.cols,
     rows |-> [i \in 1..Len(df.rows) |->
                  [j \in 1..Len(df.cols) |-> CellText(df.rows[i][j])]]]

\* read_csv raises EmptyDataError on a file without a header line (what
\* to_csv leaves of a frame without columns).
ReadRaises(file) == file.cols = <<>>

\* read_csv, one column: missing values become NaN; a column of integers
\* is int64, or float64 if a value is missing; a column of numbers is
\* float64; any other column holds the remaining fields as str.
ReadColumn(texts) ==
    LET idx == 1..Len(texts)
        present == {i \in idx : texts[i] \notin NaValues}
        allInt == \A i \in present : IsIntText(texts[i])
        allNum == \A i \in present : IsIntText(texts[i]) \/ IsFloatText(texts[i])
    IN IF present /= {} /\ allInt /\ present = idx
       THEN [i \in idx |-> JInt(ParseInt(texts[i]))]
       ELSE IF allNum
       THEN [i \in idx |-> IF i \in present THEN JFloat(FloatOfText(texts[i])) ELSE NaN]
       ELSE [i \in idx |-> IF i \in present THEN JStr(texts[i]) ELSE NaN]

\* pd.read_csv(path) of a file it can read.
ReadCsv(file) ==
    [cols |-> file.cols,
     rows |-> RowsOf([j \in 1..Len(file.cols) |-> ReadColumn(Column(file.rows, j))],
                     Len(file.rows))]

\* What to_sql stores for a cell: NaN goes in as NULL.
SqlValue(c) == IF c.t = "nan" THEN JNull ELSE c

\* The table that CREATE TABLE + INSERT of the frame's rows gives.
TableOf(df) ==
    [cols |-> df.cols,
     rows |-> [i \in 1..Len(df.rows) |->
                  [j \in 1..Len(df.cols) |-> SqlValue(df.rows[i][j])]]]

\* Mutant: if_exists="append".
ToSqlAppend(old, df) ==
    IF old = None THEN Some(TableOf(df))
    ELSE Some([cols |-> old[1].cols, rows |-> old[1].rows \o TableOf(df).rows])

\* df.to_sql(table, conn, if_exists="replace", index=False): the table is
\* dropped if it exists and created anew from the frame.
ToSqlReplace(old, df) == Some(TableOf(df))

(***************************************************************************)
(* One load: read_csv + to_sql                                             *)
(*   data_pipeline.py:30-31, populate_missing_tables.py:10-16              *)
(***************************************************************************)
MaxLoads == 3
MaxFileRows == 2

WBColumns == <<"iso_code", "gdp", "population_gdp">>

\* Lines a world_bank_data.csv may hold.
WBFileRows ==
    { <<<<"A", "B", "W">>, <<"3", ".", "0">>, <<"5">>>>,
      <<<<"A", "F", "G">>, <<>>, <<"7">>>>,
      <<<<"A", "B", "W">>, <<"4", ".", "0">>, <<>>>> }

\* The file to_csv leaves of a frame without columns.
EmptyFile == [cols |-> <<>>, rows |-> <<>>]

WBFiles ==
    {EmptyFile} \cup
    {[cols |-> WBColumns, rows |-> r] : r \in SeqUpTo(WBFileRows, MaxFileRows)}

\* What an earlier run left in the table.
PriorTable ==
    [cols |-> WBColumns,
     rows |-> <<<<JStr(<<"A", "G", "O">>), JFloat(1), JInt(2)>>>>]

TLInit ==
    /\ tl_table \in {None, Some(PriorTable)}
    /\ tl_a = None
    /\ tl_b = None
    /\ tl_n = 0

TLIdle ==
    /\ tl_table = None
    /\ tl_a = None
    /\ tl_b = None
    /\ tl_n = 0

\* One run of the two statements on some file: read_csv raises and the
\* table is not touched, or the frame read replaces the table.
TL_Load ==
    /\ tl_n < MaxLoads
    /\ tl_n' = tl_n + 1
    /\ \E file \in WBFiles :
        IF ReadRaises(file)
        THEN UNCHANGED <<tl_table, tl_a, tl_b>>
        ELSE /\ tl_table' = ToSqlReplace(tl_table, ReadCsv(file))
             /\ tl_a' = tl_b
             /\ tl_b' = Some(ReadCsv(file))
    /\ TLFrame

TLNext == TL_Load

(***************************************************************************)
(* CSV snapshot: saved by country_api.py:76-77 and fetch_gdp_data.py:98-99,*)
(* read back by data_pipeline.py:30                                        *)
(***************************************************************************)
MaxCached == 2

MarketColumns == <<"country", "capital", "language_code", "language", "population">>

\* The characters of a language name.
NameChars(name) ==
    CASE name = "English" -> <<"E", "n", "g", "l", "i", "s", "h">>
      [] name = "Nepali" -> <<"N", "e", "p", "a", "l", "i">>
      [] OTHER -> UnknownCode

\* The list `result` that the for loop builds from a payload.
RECURSIVE MarketResult(_)
MarketResult(data) ==
    IF data = <<>> THEN <<>>
    ELSE MarketResult(SubSeq(data, 1, Len(data) - 1))
         \o ProcessEntry(data[Len(data)]).records

\* A record of `result` as a row of cells, in the order of its keys.
MarketCells(r) ==
    <<JStr(r.country), JStr(r.capital), JStr(r.language_code),
      JStr(NameChars(r.language)), JInt(r.population)>>

MarketSnapshots ==
    { [k \in 1..Len(MarketResult(d)) |-> MarketCells(MarketResult(d)[k])] : d \in Payloads }

\* A record of `cached`: the code and the two values as fetched (a float or
\* None each, not both None).
CachedRecords ==
    { <<JStr(c), g, p>> :
        c \in {<<"A", "B", "W">>, <<"A", "F", "G">>},
        g \in {JNull, JFloat(3)},
        p \in {JNull, JFloat(5)} }
    \ { <<JStr(c), JNull, JNull>> : c \in {<<"A", "B", "W">>, <<"A", "F", "G">>} }

\* `if cached:` -- the cache file is written for a non-empty list only.
CacheSnapshots == SeqUpTo(CachedRecords, MaxCached) \ {<<>>}

CSInit ==
    /\ \/ cs_cols = MarketColumns /\ cs_records \in MarketSnapshots
       \/ cs_cols = WBColumns /\ cs_records \in CacheSnapshots
    /\ cs_file = None
    /\ cs_loaded = None
    /\ cs_pc = "save"

CSIdle ==
    /\ cs_cols = <<>>
    /\ cs_records = <<>>
    /\ cs_file = None
    /\ cs_loaded = None
    /\ cs_pc = "done"

\* df = pd.DataFrame(records); df.to_csv(path, index=False)
CS_Save ==
    /\ cs_pc = "save"
    /\ cs_file' = Some(DataFrameToCsv(DataFrame(cs_cols, cs_records)))
    /\ cs_pc' = "load"
    /\ UNCHANGED <<cs_cols, cs_records, cs_loaded>>
    /\ CSFrame

\* df = pd.read_csv(file_path)
CS_Load ==
    /\ cs_pc = "load"
    /\ IF ReadRaises(cs_file[1])
       THEN /\ cs_pc' = "raised"
            /\ UNCHANGED cs_loaded
       ELSE /\ cs_loaded' = Some(ReadCsv(cs_file[1]))
            /\ cs_pc' = "done"
    /\ UNCHANGED <<cs_cols, cs_records, cs_file>>
    /\ CSFrame

CSNext == CS_Save \/ CS_Load

(***************************************************************************)
(* train_model.py                                                          *)
(***************************************************************************)
MaxMovies == 3

\* Mutant: the thresholds in ascending order.
ThresholdsAscending == <<8, 10, 15, 20>>

\* thresholds = [2.0, 1.5, 1.0, 0.8], in tenths.
Thresholds == <<20, 15, 10, 8>>
Tenths == 10

\* A row of movies.csv: budget and revenue (a number, or missing) and
\* whether release_date parses to a date.
Movie(budget, revenue, dated) ==
    [budget |-> budget, revenue |-> revenue, dated |-> dated]

\* Rows with a revenue of 0.8, 0.9, 1.2, 1.8 and 2.5 times the budget, rows
\* without a budget (revenue 0 and above it), and rows that dropna drops.
MovieRows ==
    { Movie(Some(10), Some(8), TRUE), Movie(Some(10), Some(9), TRUE),
      Movie(Some(10), Some(12), TRUE), Movie(Some(10), Some(18), TRUE),
      Movie(Some(10), Some(25), TRUE), Movie(Some(0), Some(0), TRUE),
      Movie(Some(0), Some(7), TRUE), Movie(None, Some(9), TRUE),
      Movie(Some(10), None, TRUE), Movie(Some(10), Some(9), FALSE) }

\* df.dropna(subset=["budget", "release_month", "revenue"]): release_month
\* is missing when to_datetime(errors='coerce') could not parse the date.
Retained(rows) ==
    SelectSeq(rows, LAMBDA r : r.budget /= None /\ r.dated /\ r.revenue /= None)

\* Mutant: revenue >= t * budget.
IsHitOrEqual(row, t) == row.revenue[1] * Tenths >= t * row.budget[1]

\* revenue > t * budget, with t in tenths.
IsHit(row, t) == row.revenue[1] * Tenths > t * row.budget[1]

\* test_size=0.2: the test part has ceil(0.2 * n) rows.
TestSize(n) == (2 * n + Tenths - 1) \div Tenths

\* What an earlier run left in ml/hit_predictor.pkl.
PriorArtifact == [threshold |-> 0, trained_on |-> 0]

TRInit ==
    /\ tr_file \in {None} \cup {Some(rows) : rows \in SeqUpTo(MovieRows, MaxMovies)}
    /\ tr_df = <<>>
    /\ tr_k = 1
    /\ tr_tried = <<>>
    /\ tr_selected = None
    /\ tr_labels = <<>>
    /\ tr_test = {}
    /\ tr_artifact \in {None, Some(PriorArtifact)}
    /\ tr_artifact0 = tr_artifact
    /\ tr_exit = None
    /\ tr_pc = "load"

TRIdle ==
    /\ tr_file = None
    /\ tr_df = <<>>
    /\ tr_k = 1
    /\ tr_tried = <<>>
    /\ tr_selected = None
    /\ tr_labels = <<>>
    /\ tr_test = {}
    /\ tr_artifact = None
    /\ tr_artifact0 = None
    /\ tr_exit = None
    /\ tr_pc = "done"

\* Lines 10-16: read_csv raises on a missing file and the script dies with
\* exit code 1; otherwise the incomplete rows are dropped.
TR_Load ==
    /\ tr_pc = "load"
    /\ IF tr_file = None
       THEN /\ tr_exit' = Some(1)
            /\ tr_pc' = "done"
            /\ UNCHANGED tr_df
       ELSE /\ tr_df' = Retained(tr_file[1])
            /\ tr_pc' = "loop"
            /\ UNCHANGED tr_exit
    /\ UNCHANGED <<tr_file, tr_k, tr_tried, tr_selected, tr_labels, tr_test,
                   tr_artifact, tr_artifact0>>
    /\ TRFrame

\* Lines 22-31, one iteration: label with thresholds[k]; break when both
\* classes occur, else go on.
TR_Try ==
    /\ tr_pc = "loop"
    /\ tr_k <= Len(Thresholds)
    /\ LET t == Thresholds[tr_k]
           labels == [i \in 1..Len(tr_df) |-> IsHit(tr_df[i], t)]
       IN /\ tr_labels' = labels
          /\ tr_tried' = Append(tr_tried, t)
          /\ IF Cardinality(Range(labels)) >= 2
             THEN /\ tr_selected' = Some(t)
                  /\ tr_pc' = "fit"
                  /\ UNCHANGED tr_k
             ELSE /\ tr_k' = tr_k + 1
                  /\ UNCHANGED <<tr_selected, tr_pc>>
    /\ UNCHANGED <<tr_file, tr_df, tr_test, tr_artifact, tr_artifact0, tr_exit>>
    /\ TRFrame

\* Lines 33-35: the loop ran out of thresholds: sys.exit(1).
TR_NoThreshold ==
    /\ tr_pc = "loop"
    /\ tr_k > Len(Thresholds)
    /\ tr_exit' = Some(1)
    /\ tr_pc' = "done"
    /\ UNCHANGED <<tr_file, tr_df, tr_k, tr_tried, tr_selected, tr_labels,
                   tr_test, tr_artifact, tr_artifact0>>
    /\ TRFrame

\* Lines 43-51: the shuffled split puts TestSize(n) rows aside (which ones
\* is fixed by random_state but not by anything the script states: any
\* subset of that size); LogisticRegression.fit raises when the training
\* part holds one class only, and the script dies with exit code 1.
TR_Fit ==
    /\ tr_pc = "fit"
    /\ \E test \in SUBSET (1..Len(tr_df)) :
        /\ Cardinality(test) = TestSize(Len(tr_df))
        /\ tr_test' = test
        /\ IF Cardinality({tr_labels[i] : i \in (1..Len(tr_df)) \ test}) >= 2
           THEN /\ tr_pc' = "dump"
                /\ UNCHANGED tr_exit
           ELSE /\ tr_exit' = Some(1)
                /\ tr_pc' = "done"
    /\ UNCHANGED <<tr_file, tr_df, tr_k, tr_tried, tr_selected, tr_labels,
                   tr_artifact, tr_artifact0>>
    /\ TRFrame

\* Lines 54-61: the model is dumped over whatever the file held.
TR_Dump ==
    /\ tr_pc = "dump"
    /\ tr_artifact' = Some([threshold |-> tr_selected[1],
                            trained_on |-> Len(tr_df) - Cardinality(tr_test)])
    /\ tr_exit' = Some(0)
    /\ tr_pc' = "done"
    /\ UNCHANGED <<tr_file, tr_df, tr_k, tr_tried, tr_selected, tr_labels,
                   tr_test, tr_artifact0>>
    /\ TRFrame

TRNext == TR_Load \/ TR_Try \/ TR_NoThreshold \/ TR_Fit \/ TR_Dump

(***************************************************************************)
(* data_pipeline.py                                                        *)
(***************************************************************************)
\* The dict `tables`, in its insertion order.
Tables ==
    << [table |-> "movies", file |-> "movies.csv"],
       [table |-> "genres", file |-> "genres.csv"],
       [table |-> "cast", file |-> "cast.csv"],
       [table |-> "language_market", file |-> "language_market.csv"],
       [table |-> "world_bank_data", file |-> "world_bank_data.csv"] >>

TableNames == {Tables[k].table : k \in 1..Len(Tables)}
FileNames == {Tables[k].file : k \in 1..Len(Tables)}

\* A CSV file with a header line and one data line.
OneLineFile ==
    [cols |-> WBColumns,
     rows |-> <<<<<<"A", "B", "W">>, <<"3", ".", "0">>, <<"5">>>>>>]

\* What data/ may hold under one name: nothing, a file without header (what
\* to_csv leaves of an empty frame), or a file with data.
FileChoices == {None, Some(EmptyFile), Some(OneLineFile)}

\* Mutant: a missing file ends the loop.
AfterMissingFileBreak(i) == Len(Tables) + 1

\* else: print(f"Missing: {file}") -- the loop goes on with the next table.
AfterMissingFile(i) == i + 1

DPInit ==
    /\ dp_files \in [FileNames -> FileChoices]
    /\ dp_db \in {[t \in TableNames |-> None], [t \in TableNames |-> Some(PriorTable)]}
    /\ dp_db0 = dp_db
    /\ dp_i = 1
    /\ dp_exit = None
    /\ dp_pc = "loop"

DPIdle ==
    /\ dp_files = [f \in FileNames |-> None]
    /\ dp_db = [t \in TableNames |-> None]
    /\ dp_db0 = dp_db
    /\ dp_i = 1
    /\ dp_exit = None
    /\ dp_pc = "done"

\* Lines 25-35, one iteration: a file that exists is read and replaces its
\* table (read_csv raising ends the script with exit code 1); a missing
\* file is reported and nothing else happens.
DP_Table ==
    /\ dp_pc = "loop"
    /\ dp_i <= Len(Tables)
    /\ LET table == Tables[dp_i].table
           file == dp_files[Tables[dp_i].file]
       IN IF file = None
          THEN /\ dp_i' = AfterMissingFile(dp_i)
               /\ UNCHANGED <<dp_db, dp_exit, dp_pc>>
          ELSE IF ReadRaises(file[1])
          THEN /\ dp_exit' = Some(1)
               /\ dp_pc' = "done"
               /\ UNCHANGED <<dp_db, dp_i>>
          ELSE /\ dp_db' = [dp_db EXCEPT ![table] = ToSqlReplace(dp_db[table], ReadCsv(file[1]))]
               /\ dp_i' = dp_i + 1
               /\ UNCHANGED <<dp_exit, dp_pc>>
    /\ UNCHANGED <<dp_files, dp_db0>>
    /\ DPFrame

\* Lines 37-39: conn.close(), the script ends.
DP_Close ==
    /\ dp_pc = "loop"
    /\ dp_i > Len(Tables)
    /\ dp_exit' = Some(0)
    /\ dp_pc' = "done"
    /\ UNCHANGED <<dp_files, dp_db, dp_db0, dp_i>>
    /\ DPFrame

DPNext == DP_Table \/ DP_Close

(***************************************************************************)
(* run_all.main and the scripts it runs                 run_all.py:25-77   *)
(* The scripts work on one database (film.db: dp_db), one data directory   *)
(* (dp_files) and one model file (tr_artifact); run_all.py is started in   *)
(* the project directory, which the relative paths of                      *)
(* populate_missing_tables.py and train_model.py rely on.                  *)
(***************************************************************************)
\* Mutant: the incremental fetch runs after the loads.
PipelineStepsFetchLate ==
    <<"init_db.py", "country_api.py", "world_bank_api.py",
      "populate_missing_tables.py", "data_pipeline.py", "fetch_gdp_data.py",
      "train_model.py">>

PIPELINE_STEPS ==
    <<"init_db.py", "country_api.py", "world_bank_api.py", "fetch_gdp_data.py",
      "populate_missing_tables.py", "data_pipeline.py", "train_model.py">>

\* Return codes of a script that dies before its own code runs (a missing
\* module, a missing file of its own).
DiedCodes == {1, 2}

\* Mutant: the return code is not looked at (as for pip install).
FailedNever(returncode) == FALSE

\* if result.returncode != 0
Failed(returncode) == returncode /= 0

\* The alpha_3 codes as the str they are in a table or a file.
CodeChars ==
    ("ABW" :> <<"A", "B", "W">>) @@ ("AFG" :> <<"A", "F", "G">>)
        @@ ("AGO" :> <<"A", "G", "O">>)

IsNumber(c) == c.t \in {"int", "float"}

\* SELECT iso_code FROM world_bank_data, and the rows behind the codes, for
\* the countries of pycountry (CREATE TABLE IF NOT EXISTS comes first, so a
\* missing table reads as an empty one).
TableView(table) ==
    [c \in Range(Countries) |->
        IF table /= None /\ \E i \in 1..Len(table[1].rows) :
                                table[1].rows[i][1] = JStr(CodeChars[c])
        THEN LET row == table[1].rows[CHOOSE i \in 1..Len(table[1].rows) :
                                        table[1].rows[i][1] = JStr(CodeChars[c])]
             IN Some([gdp |-> IF IsNumber(row[2]) THEN Some(Float(row[2].n)) ELSE None,
                      population_gdp |-> IF IsNumber(row[3])
                                         THEN Some(IntOfFloat(Float(row[3].n)))
                                         ELSE None])
        ELSE None]

\* The row INSERT INTO world_bank_data (iso_code, gdp, population_gdp) adds.
InsertedCells(c, row) ==
    <<JStr(CodeChars[c]),
      IF row.gdp = None THEN JNull ELSE JFloat(row.gdp[1].val),
      IF row.population_gdp = None THEN JNull ELSE JInt(row.population_gdp[1].val)>>

\* world_bank_data after the fetch: created if it was missing, with the
\* rows of the INSERTs that went through (those of codes the table did not
\* have) behind the rows it had.
TableAfterFetch(table, inserts, rows0, rows) ==
    LET done == SelectSeq(inserts, LAMBDA c : rows0[c] = None)
    IN Some([cols |-> IF table = None THEN WBColumns ELSE table[1].cols,
             rows |-> (IF table = None THEN <<>> ELSE table[1].rows)
                      \o [k \in 1..Len(done) |-> InsertedCells(done[k], rows[done[k]][1])]])

\* database/schema.sql is run by init_db.py with executescript; it defines
\* the tables: one that is missing may come to exist, empty, and no row of
\* an existing table changes.
SchemaOutcomes(db) ==
    {db, [t \in TableNames |-> IF db[t] = None
                               THEN Some([cols |-> WBColumns, rows |-> <<>>])
                               ELSE db[t]]}

\* populate_missing_tables.py as a whole: both files are read (a missing or
\* unreadable one raises, exit code 1) before either table is replaced.
PopulateRun(files, db) ==
    LET lang == files["language_market.csv"]
        gdp == files["world_bank_data.csv"]
    IN IF lang = None \/ gdp = None THEN [code |-> 1, db |-> db]
       ELSE IF ReadRaises(lang[1]) \/ ReadRaises(gdp[1]) THEN [code |-> 1, db |-> db]
       ELSE [code |-> 0,
             db |-> [db EXCEPT
                 !["language_market"] = ToSqlReplace(db["language_market"], ReadCsv(lang[1])),
                 !["world_bank_data"] = ToSqlReplace(db["world_bank_data"], ReadCsv(gdp[1]))]]

MovieColumns == <<"budget", "release_date", "revenue">>

\* A release_date that to_datetime parses.
DateText == <<"2", "0", "2", "0", "-", "0", "1">>

\* A movies.csv whose rows are mixed at the first threshold, and one with a
\* single row.
MixedMovies ==
    [cols |-> MovieColumns,
     rows |-> << <<<<"1", "0">>, DateText, <<"2", "5">>>>,
                 <<<<"1", "0">>, DateText, <<"9">>>>,
                 <<<<"1", "0">>, DateText, <<"8">>>> >>]

SingleMovie ==
    [cols |-> MovieColumns, rows |-> << <<<<"1", "0">>, <<>>, <<"9">>>> >>]

\* pd.read_csv("data/movies.csv") as train_model.py sees it: None when the
\* read raises, else the rows with their budget, revenue and date.
MoviesView(file) ==
    IF file = None \/ ReadRaises(file[1]) \/ file[1].cols /= MovieColumns THEN None
    ELSE LET rows == ReadCsv(file[1]).rows
         IN Some([i \in 1..Len(rows) |->
                Movie(IF IsNumber(rows[i][1]) THEN Some(rows[i][1].n) ELSE None,
                      IF IsNumber(rows[i][3]) THEN Some(rows[i][3].n) ELSE None,
                      rows[i][2].t /= "nan")])

\* What data/ and film.db hold when run_all.py starts.
PLWorld ==
    /\ dp_files \in
        { [f \in FileNames |->
              CASE f = "movies.csv" -> m
                [] f = "genres.csv" -> None
                [] f = "cast.csv" -> Some(OneLineFile)
                [] f = "language_market.csv" -> l
                [] OTHER -> w] :
            m \in {Some(MixedMovies), Some(SingleMovie)},
            l \in {None, Some(OneLineFile)},
            w \in {None, Some(EmptyFile), Some(OneLineFile)} }
    /\ dp_db \in {[t \in TableNames |-> None], [t \in TableNames |-> Some(PriorTable)]}
    /\ dp_db0 = dp_db
    /\ dp_i = 1
    /\ dp_exit = None
    /\ dp_pc = "done"
    /\ tr_file = None
    /\ tr_df = <<>>
    /\ tr_k = 1
    /\ tr_tried = <<>>
    /\ tr_selected = None
    /\ tr_labels = <<>>
    /\ tr_test = {}
    /\ tr_artifact = Some(PriorArtifact)
    /\ tr_artifact0 = tr_artifact
    /\ tr_exit = None
    /\ tr_pc = "done"

PLInit ==
    /\ pl_i = 1
    /\ pl_started = <<>>
    /\ pl_codes = <<>>
    /\ pl_inserted = <<>>
    /\ pl_dashboard = FALSE
    /\ pl_exit = None
    /\ pl_pc = "setup"

PLIdle ==
    /\ pl_i = 1
    /\ pl_started = <<>>
    /\ pl_codes = <<>>
    /\ pl_inserted = <<>>
    /\ pl_dashboard = FALSE
    /\ pl_exit = None
    /\ pl_pc = "done"

\* The components run_all.py and its scripts never touch.
PLFrame == UNCHANGED <<rgVars, glVars, lmVars, wbVars, flVars, tmVars, tlVars, csVars>>

\* The for loop is at the script `name`, about to run it.
AtStep(name) ==
    /\ pl_pc = "step"
    /\ pl_i <= Len(PIPELINE_STEPS)
    /\ PIPELINE_STEPS[pl_i] = name

\* The script `name` was started and run_script waits for it.
WaitingFor(name) ==
    /\ pl_pc = "wait"
    /\ PIPELINE_STEPS[pl_i] = name

\* run_script after subprocess.run has returned: a non-zero return code
\* prints and calls sys.exit(1); otherwise main's loop goes on.
RunScriptReturned(code) ==
    /\ pl_codes' = Append(pl_codes, code)
    /\ IF Failed(code)
       THEN /\ pl_exit' = Some(1)
            /\ pl_pc' = "done"
            /\ UNCHANGED pl_i
       ELSE /\ pl_i' = pl_i + 1
            /\ pl_pc' = "step"
            /\ UNCHANGED pl_exit

\* Lines 66-68: create_virtualenv (which may raise: exit code 1) and
\* install_requirements (whose return code is not looked at).
PL_Setup ==
    /\ pl_pc = "setup"
    /\ \/ pl_pc' = "step" /\ UNCHANGED pl_exit
       \/ pl_pc' = "done" /\ pl_exit' = Some(1)
    /\ UNCHANGED <<pl_i, pl_started, pl_codes, pl_inserted, pl_dashboard>>
    /\ UNCHANGED <<fgVars, dpVars, trVars>>
    /\ PLFrame

\* Any script: the interpreter starts it and it dies before doing anything.
PL_ScriptDies ==
    /\ pl_pc = "step"
    /\ pl_i <= Len(PIPELINE_STEPS)
    /\ pl_started' = Append(pl_started, PIPELINE_STEPS[pl_i])
    /\ \E code \in DiedCodes : RunScriptReturned(code)
    /\ UNCHANGED <<pl_inserted, pl_dashboard>>
    /\ UNCHANGED <<fgVars, dpVars, trVars>>
    /\ PLFrame

\* init_db.py: run_schema() applies schema.sql.
PL_InitDb ==
    /\ AtStep("init_db.py")
    /\ pl_started' = Append(pl_started, "init_db.py")
    /\ dp_db' \in SchemaOutcomes(dp_db)
    /\ RunScriptReturned(0)
    /\ UNCHANGED <<pl_inserted, pl_dashboard>>
    /\ UNCHANGED <<dp_files, dp_db0, dp_i, dp_exit, dp_pc>>
    /\ UNCHANGED <<fgVars, trVars>>
    /\ PLFrame

\* country_api.py and world_bank_api.py run as scripts: they import and
\* define their functions, and call none of them.
PL_ApiModule ==
    /\ AtStep("country_api.py") \/ AtStep("world_bank_api.py")
    /\ pl_started' = Append(pl_started, PIPELINE_STEPS[pl_i])
    /\ RunScriptReturned(0)
    /\ UNCHANGED <<pl_inserted, pl_dashboard>>
    /\ UNCHANGED <<fgVars, dpVars, trVars>>
    /\ PLFrame

\* fetch_gdp_data.py starts: main() with the table as it is in film.db.
PL_StartFetch ==
    /\ AtStep("fetch_gdp_data.py")
    /\ pl_started' = Append(pl_started, "fetch_gdp_data.py")
    /\ pl_pc' = "wait"
    /\ fg_table' = TableView(dp_db["world_bank_data"])
    /\ fg_table0' = fg_table'
    /\ fg_existing' = {}
    /\ fg_idx' = 1
    /\ fg_gdp' = None
    /\ fg_pop' = None
    /\ fg_requests' = <<>>
    /\ fg_inserts' = <<>>
    /\ fg_cached' = <<>>
    /\ fg_pc' = "start"
    /\ UNCHANGED <<pl_i, pl_codes, pl_inserted, pl_dashboard, pl_exit>>
    /\ UNCHANGED <<dpVars, trVars>>
    /\ PLFrame

\* fetch_gdp_data.py has ended: its INSERTs are in film.db, its process is
\* gone.
PL_EndFetch ==
    /\ WaitingFor("fetch_gdp_data.py")
    /\ fg_pc \in {"done", "crashed"}
    /\ dp_db' = [dp_db EXCEPT !["world_bank_data"] =
                    TableAfterFetch(dp_db["world_bank_data"], fg_inserts,
                                    fg_table0, fg_table)]
    /\ pl_inserted' = SelectSeq(fg_inserts, LAMBDA c : fg_table0[c] = None)
    /\ RunScriptReturned(IF fg_pc = "done" THEN 0 ELSE 1)
    /\ fg_table' = [c \in Range(Countries) |-> None]
    /\ fg_table0' = fg_table'
    /\ fg_existing' = {}
    /\ fg_idx' = 1
    /\ fg_gdp' = None
    /\ fg_pop' = None
    /\ fg_requests' = <<>>
    /\ fg_inserts' = <<>>
    /\ fg_cached' = <<>>
    /\ fg_pc' = "done"
    /\ UNCHANGED <<pl_started, pl_dashboard>>
    /\ UNCHANGED <<dp_files, dp_db0, dp_i, dp_exit, dp_pc>>
    /\ UNCHANGED trVars
    /\ PLFrame

\* populate_missing_tables.py
PL_Populate ==
    /\ AtStep("populate_missing_tables.py")
    /\ pl_started' = Append(pl_started, "populate_missing_tables.py")
    /\ dp_db' = PopulateRun(dp_files, dp_db).db
    /\ RunScriptReturned(PopulateRun(dp_files, dp_db).code)
    /\ UNCHANGED <<pl_inserted, pl_dashboard>>
    /\ UNCHANGED <<dp_files, dp_db0, dp_i, dp_exit, dp_pc>>
    /\ UNCHANGED <<fgVars, trVars>>
    /\ PLFrame

\* data_pipeline.py starts.
PL_StartDataPipeline ==
    /\ AtStep("data_pipeline.py")
    /\ pl_started' = Append(pl_started, "data_pipeline.py")
    /\ pl_pc' = "wait"
    /\ dp_db0' = dp_db
    /\ dp_i' = 1
    /\ dp_exit' = None
    /\ dp_pc' = "loop"
    /\ UNCHANGED <<pl_i, pl_codes, pl_inserted, pl_dashboard, pl_exit>>
    /\ UNCHANGED <<dp_files, dp_db>>
    /\ UNCHANGED <<fgVars, trVars>>
    /\ PLFrame

\* data_pipeline.py has ended.
PL_EndDataPipeline ==
    /\ WaitingFor("data_pipeline.py")
    /\ dp_pc = "done"
    /\ RunScriptReturned(dp_exit[1])
    /\ UNCHANGED <<pl_started, pl_inserted, pl_dashboard>>
    /\ UNCHANGED <<fgVars, dpVars, trVars>>
    /\ PLFrame

\* train_model.py starts.
PL_StartTraining ==
    /\ AtStep("train_model.py")
    /\ pl_started' = Append(pl_started, "train_model.py")
    /\ pl_pc' = "wait"
    /\ tr_file' = MoviesView(dp_files["movies.csv"])
    /\ tr_df' = <<>>
    /\ tr_k' = 1
    /\ tr_tried' = <<>>
    /\ tr_selected' = None
    /\ tr_labels' = <<>>
    /\ tr_test' = {}
    /\ tr_artifact0' = tr_artifact
    /\ tr_exit' = None
    /\ tr_pc' = "load"
    /\ UNCHANGED <<pl_i, pl_codes, pl_inserted, pl_dashboard, pl_exit>>
    /\ UNCHANGED tr_artifact
    /\ UNCHANGED <<fgVars, dpVars>>
    /\ PLFrame

\* train_model.py has ended.
PL_EndTraining ==
    /\ WaitingFor("train_model.py")
    /\ tr_pc = "done"
    /\ RunScriptReturned(tr_exit[1])
    /\ UNCHANGED <<pl_started, pl_inserted, pl_dashboard>>
    /\ UNCHANGED <<fgVars, dpVars, trVars>>
    /\ PLFrame

\* Lines 76-77: every script returned 0: launch_dashboard(), main returns.
PL_Dashboard ==
    /\ pl_pc = "step"
    /\ pl_i > Len(PIPELINE_STEPS)
    /\ pl_dashboard' = TRUE
    /\ pl_exit' = Some(0)
    /\ pl_pc' = "done"
    /\ UNCHANGED <<pl_i, pl_started, pl_codes, pl_inserted>>
    /\ UNCHANGED <<fgVars, dpVars, trVars>>
    /\ PLFrame

PLNext ==
    \/ PL_Setup \/ PL_ScriptDies \/ PL_InitDb \/ PL_ApiModule
    \/ PL_StartFetch \/ PL_EndFetch \/ PL_Populate
    \/ PL_StartDataPipeline \/ PL_EndDataPipeline
    \/ PL_StartTraining \/ PL_EndTraining \/ PL_Dashboard
    \/ FGNext \/ DPNext \/ TRNext

(***************************************************************************)
(* Specifications                                                          *)
(***************************************************************************)
InitRobustGet == RGInit /\ GLIdle /\ LMIdle /\ WBIdle /\ FLIdle /\ FGIdle
    /\ TMIdle /\ TLIdle /\ CSIdle /\ TRIdle /\ DPIdle /\ PLIdle
SpecRobustGet == InitRobustGet /\ [][RGNext]_vars

InitLanguage == RGIdle /\ GLInit /\ LMIdle /\ WBIdle /\ FLIdle /\ FGIdle
    /\ TMIdle /\ TLIdle /\ CSIdle /\ TRIdle /\ DPIdle /\ PLIdle
SpecLanguage == InitLanguage /\ [][GLNext]_vars

InitMarket == RGIdle /\ GLIdle /\ LMInit /\ WBIdle /\ FLIdle /\ FGIdle
    /\ TMIdle /\ TLIdle /\ CSIdle /\ TRIdle /\ DPIdle /\ PLIdle
SpecMarket == InitMarket /\ [][LMNext]_vars

InitWorldBank == RGIdle /\ GLIdle /\ LMIdle /\ WBInit /\ FLIdle /\ FGIdle
    /\ TMIdle /\ TLIdle /\ CSIdle /\ TRIdle /\ DPIdle /\ PLIdle
SpecWorldBank == InitWorldBank /\ [][WBNext]_vars

InitLatest == RGIdle /\ GLIdle /\ LMIdle /\ WBIdle /\ FLInit /\ FGIdle
    /\ TMIdle /\ TLIdle /\ CSIdle /\ TRIdle /\ DPIdle /\ PLIdle
SpecLatest == InitLatest /\ [][FLNext]_vars

InitIncremental == RGIdle /\ GLIdle /\ LMIdle /\ WBIdle /\ FLIdle /\ FGInit
    /\ TMIdle /\ TLIdle /\ CSIdle /\ TRIdle /\ DPIdle /\ PLIdle
SpecIncremental == InitIncremental /\ [][FGNext]_vars

InitMovies == RGIdle /\ GLIdle /\ LMIdle /\ WBIdle /\ FLIdle /\ FGIdle
    /\ TMInit
    /\ TLIdle /\ CSIdle /\ TRIdle /\ DPIdle /\ PLIdle
SpecMovies == InitMovies /\ [][TMNext]_vars

InitLoad == RGIdle /\ GLIdle /\ LMIdle /\ WBIdle /\ FLIdle /\ FGIdle /\ TMIdle
    /\ TLInit /\ CSIdle /\ TRIdle /\ DPIdle /\ PLIdle
SpecLoad == InitLoad /\ [][TLNext]_vars

InitSnapshot == RGIdle /\ GLIdle /\ LMIdle /\ WBIdle /\ FLIdle /\ FGIdle
    /\ TMIdle
    /\ TLIdle /\ CSInit /\ TRIdle /\ DPIdle /\ PLIdle
SpecSnapshot == InitSnapshot /\ [][CSNext]_vars

InitTraining == RGIdle /\ GLIdle /\ LMIdle /\ WBIdle /\ FLIdle /\ FGIdle
    /\ TMIdle
    /\ TLIdle /\ CSIdle /\ TRInit /\ DPIdle /\ PLIdle
SpecTraining == InitTraining /\ [][TRNext]_vars

InitDataPipeline == RGIdle /\ GLIdle /\ LMIdle /\ WBIdle /\ FLIdle /\ FGIdle
    /\ TMIdle
    /\ TLIdle /\ CSIdle /\ TRIdle /\ DPInit /\ PLIdle
SpecDataPipeline == InitDataPipeline /\ [][DPNext]_vars

InitPipeline == RGIdle /\ GLIdle /\ LMIdle /\ WBIdle /\ FLIdle /\ FGIdle /\ TMIdle
    /\ TLIdle /\ CSIdle /\ PLWorld /\ PLInit
SpecPipeline == InitPipeline /\ [][PLNext]_vars

----------------------------------------------------------------------------
(***************************************************************************)
(* C1                                                                      *)
(***************************************************************************)
C1_Raises(o) == o.err \/ (400 <= o.status /\ o.status <= 599)

Is2xx(o) == ~o.err /\ 200 <= o.status /\ o.status < 300

\* C1 (as stated): robust_get returns the response of the first attempt that
\* succeeds, success being no transport error and a 2xx status, makes no
\* further attempt after it, and returns None only after every attempt failed.
C1_Original ==
    rg_pc = "done" =>
        /\ rg_result /= None =>
            /\ Is2xx(rg_log[Len(rg_log)])
            /\ rg_result[1].attempt = Len(rg_log)
            /\ \A i \in 1..(Len(rg_log) - 1) : ~Is2xx(rg_log[i])
        /\ rg_result = None => \A i \in 1..Len(rg_log) : ~Is2xx(rg_log[i])

\* C1 (amended): robust_get returns the response of the first attempt that
\* raises nothing (no transport error and no 4xx/5xx status; any other final
\* status, 2xx or not, is returned), makes no further attempt after it, makes
\* at most `retries` attempts in all, and returns None only after all
\* `retries` attempts have raised.
C1_FirstNonRaisingAttempt ==
    /\ Len(rg_log) <= rg_retries
    /\ rg_pc = "done" =>
        /\ rg_result /= None =>
            /\ ~C1_Raises(rg_log[Len(rg_log)])
            /\ rg_result[1] = [attempt |-> Len(rg_log),
                               status |-> rg_log[Len(rg_log)].status]
            /\ \A i \in 1..(Len(rg_log) - 1) : C1_Raises(rg_log[i])
        /\ rg_result = None =>
            /\ Len(rg_log) = rg_retries
            /\ \A i \in 1..Len(rg_log) : C1_Raises(rg_log[i])
    /\ rg_pc /= "done" => \A i \in 1..Len(rg_log) : C1_Raises(rg_log[i])

\* A failed first attempt followed by a successful retry that was returned.
C1_Witness ==
    /\ rg_pc = "done"
    /\ rg_result /= None
    /\ Len(rg_log) = 2
    /\ rg_log[1].err
    /\ rg_log[2].status = 304

(***************************************************************************)
(* C2                                                                      *)
(***************************************************************************)
InTable(code) == code \in DOMAIN Alpha2Table

\* C2 (as stated): for every code in the static language table the returned
\* name is not "Unknown"; for every code absent from the table the result is
\* exactly ("Unknown", code).
C2_Original ==
    gl_result /= None =>
        /\ InTable(gl_code) => gl_result[1][1] /= Unknown
        /\ ~InTable(gl_code) => gl_result[1] = <<Unknown, gl_code>>

\* C2 (amended): the lookup key is the first two characters of the code.  For
\* every code in the table the returned name is not "Unknown" and the code is
\* returned unchanged; for every code whose first two characters are no table
\* entry the result is exactly ("Unknown", code); a code that is absent from
\* the table but starts with a table entry resolves to that entry's name and
\* to its two-character prefix.
C2_ResolvesByPrefix ==
    gl_result /= None =>
        LET prefix == SubSeq(gl_code, 1, IF Len(gl_code) < 2 THEN Len(gl_code) ELSE 2)
        IN /\ InTable(gl_code) =>
                gl_result[1][1] /= Unknown /\ gl_result[1][2] = gl_code
           /\ ~InTable(prefix) => gl_result[1] = <<Unknown, gl_code>>
           /\ InTable(prefix) => gl_result[1] = <<Alpha2Table[prefix], prefix>>

\* A compound code, absent from the table, resolved through its prefix.
C2_Witness ==
    /\ gl_code = <<"e", "n", "-">>
    /\ gl_result = Some(<<"English", <<"e", "n">>>>)

(***************************************************************************)
(* C3 - C6: fetch_language_market                                          *)
(***************************************************************************)
\* The loop has been entered (the request succeeded).
LMRunning == lm_resp.ok /\ lm_pc \in {"loop", "done"}

\* Entries the loop has dealt with.
LMProcessed == IF LMRunning THEN 1..(lm_i - 1) \cap 1..Len(lm_resp.data) ELSE {}

\* The records in `result` that entry i contributed, in order.
LMRecordsOf(i) ==
    LET idx == SelectSeq([k \in 1..Len(lm_from) |-> k], LAMBDA k : lm_from[k] = i)
    IN [k \in 1..Len(idx) |-> lm_result[idx[k]]]

LMLanguages(i) == Get(lm_resp.data[i].languages, JStr(<<>>))

\* C3 (as stated): in every emitted record the language_code is exactly two
\* characters long or the literal "Unknown".
C3_Original ==
    \A k \in 1..Len(lm_result) :
        Len(lm_result[k].language_code) = 2 \/ lm_result[k].language_code = UnknownCode

\* C3 (amended): in every emitted record whose code resolved (language is not
\* "Unknown") the language_code is exactly two characters long and a table
\* entry; when resolution fails the language_code is the unresolved code of
\* the language list as it stood (trimmed, of any length), and it is the
\* literal "Unknown" when the list held no code at all.
C3_CodeTwoCharsOrUnresolved ==
    \A k \in 1..Len(lm_result) :
        LET r == lm_result[k]
            listed == StrippedCodes(LMLanguages(lm_from[k]).s)
        IN IF r.language /= Unknown
           THEN Len(r.language_code) = 2 /\ InTable(r.language_code)
           ELSE /\ ~InTable(SubSeq(r.language_code, 1, Min(2, Len(r.language_code))))
                /\ IF listed = <<>> THEN r.language_code = UnknownCode
                   ELSE r.language_code \in Range(listed)

\* An unresolved code that is neither two characters long nor the sentinel,
\* next to a resolved one.
C3_Witness ==
    /\ lm_pc = "done"
    /\ \E k \in 1..Len(lm_result) :
        /\ lm_result[k].language = Unknown
        /\ Len(lm_result[k].language_code) \in {1, 3}
    /\ \E k \in 1..Len(lm_result) : lm_result[k].language = "English"

\* The entry's `languages` value holds no code: missing, "", or separators
\* and whitespace only.
LMNoCodes(i) ==
    /\ lm_resp.data[i].isdict
    /\ LMLanguages(i).t = "str"
    /\ StrippedCodes(LMLanguages(i).s) = <<>>

\* C4 (as stated): zero records for every entry whose language list is empty
\* (missing, empty string, or only separators/whitespace).
C4_Original ==
    \A i \in LMProcessed : LMNoCodes(i) => Len(LMRecordsOf(i)) = 0

\* C4 (amended): zero records for every entry whose `languages` value is
\* missing or the empty string; an entry with a country name whose
\* `languages` is a non-empty string of separators and whitespace only
\* yields exactly one record, with language_code and language "Unknown"
\* (zero if the entry is malformed or has no country name).
C4_EmptyLanguagesSkipped ==
    \A i \in LMProcessed :
        LMNoCodes(i) =>
            IF LMLanguages(i).s = <<>>
                \/ ProcessEntry(lm_resp.data[i]).raised
                \/ Strip(Get(lm_resp.data[i].countryName, JStr(<<>>)).s) = <<>>
            THEN Len(LMRecordsOf(i)) = 0
            ELSE /\ Len(LMRecordsOf(i)) = 1
                 /\ LMRecordsOf(i)[1].language_code = UnknownCode
                 /\ LMRecordsOf(i)[1].language = Unknown

\* One entry without `languages` (no record) and one whose `languages` is
\* " ," (one "Unknown" record) have both been processed.
C4_Witness ==
    /\ lm_pc = "done"
    /\ \E i \in LMProcessed :
        LMNoCodes(i) /\ LMLanguages(i).s = <<>> /\ Len(LMRecordsOf(i)) = 0
    /\ \E i \in LMProcessed :
        LMNoCodes(i) /\ LMLanguages(i).s /= <<>> /\ Len(LMRecordsOf(i)) = 1

\* The state part of C5: what `result` holds while and after the loop runs.
C5_State ==
    LMRunning =>
        /\ \A i \in LMProcessed :
            IF ProcessEntry(lm_resp.data[i]).raised
            THEN LMRecordsOf(i) = <<>>
            ELSE LMRecordsOf(i) = ProcessEntry(lm_resp.data[i]).records
        /\ \A k \in 1..(Len(lm_from) - 1) : lm_from[k] <= lm_from[k + 1]
        /\ Len(lm_from) = Len(lm_result)
        /\ lm_pc = "done" =>
            /\ LMProcessed = 1..Len(lm_resp.data)
            /\ lm_ret = Some(lm_result)

\* C5: a malformed entry (one whose processing raises) contributes no record,
\* every well-formed entry before and after it contributes its records in
\* payload order, and the function completes and returns.
\* Completion is stated as progress: every step of the loop moves on to a
\* later entry or ends the function, which then has gone through every entry.
C5_MalformedSkippedAlone ==
    /\ []C5_State
    /\ [][lm_pc = "loop" => (lm_i' > lm_i \/ lm_pc' = "done")]_vars

\* A malformed entry between two entries that contributed records, after
\* the function returned.
C5_Witness ==
    /\ LMRunning
    /\ lm_pc = "done"
    /\ \E i, j, k \in LMProcessed :
        /\ i < j /\ j < k
        /\ ProcessEntry(lm_resp.data[j]).raised
        /\ LMRecordsOf(i) /= <<>>
        /\ LMRecordsOf(k) /= <<>>

\* C6: no two emitted records share the same country and the same
\* language_code, and all records of one country carry the same population.
C6_OneRecordPerPair ==
    \A k, l \in 1..Len(lm_result) :
        (k /= l /\ lm_result[k].country = lm_result[l].country) =>
            /\ lm_result[k].language_code /= lm_result[l].language_code
            /\ lm_result[k].population = lm_result[l].population

(***************************************************************************)
(* C7, C8: fetch_gdp_population                                            *)
(***************************************************************************)
SetMax(S) == CHOOSE m \in S : \A x \in S : x <= m
SetMin(S) == CHOOSE m \in S : \A x \in S : m <= x

WBCodes == {e.code : e \in WBEntries}

\* The non-null value the payload of `key` gives for code c (the last one,
\* should the payload list the code twice), or None.
WBValue(key, c) ==
    LET rows == wb_resp[key].rows
        at == {i \in 1..Len(rows) : rows[i].code = c /\ rows[i].value /= None}
    IN IF wb_resp[key].kind /= "rows" \/ at = {} THEN None ELSE rows[SetMax(at)].value

\* The output records for code c.
WBRecords(c) == {i \in 1..Len(wb_enriched[1]) : wb_enriched[1][i].iso_code = c}

\* C7: the two payloads are merged per country code, fields populated
\* independently: a code with a non-null value in both yields one record
\* with both; a code with a non-null value in one only yields one record
\* whose other field is null (never 0); a value of 0 is kept as 0; and each
\* iso_code appears in at most one record.
C7_MergedPerCode ==
    wb_pc = "done" =>
        \A c \in WBCodes :
            /\ Cardinality(WBRecords(c)) <= 1
            /\ IF c /= "" /\ (WBValue("gdp", c) /= None \/ WBValue("population", c) /= None)
               THEN \E i \in WBRecords(c) :
                        /\ wb_enriched[1][i].gdp = WBValue("gdp", c)
                        /\ wb_enriched[1][i].population_gdp = WBValue("population", c)
               ELSE WBRecords(c) = {}

\* USA has a GDP of 0 and a population, FRA a GDP only.
C7_Witness ==
    /\ wb_pc = "done"
    /\ \E i \in WBRecords("USA") :
        wb_enriched[1][i].gdp = Some(0) /\ wb_enriched[1][i].population_gdp = Some(5)
    /\ \E i \in WBRecords("FRA") :
        wb_enriched[1][i].gdp = Some(7) /\ wb_enriched[1][i].population_gdp = None

\* C8: a failed request (or an empty/short payload) for one indicator does
\* not abort the other: both indicators are requested whatever the first one
\* yields, and the non-null values of the other are in the result.
C8_OtherIndicatorSurvives ==
    wb_pc = "done" =>
        /\ wb_requests = <<"gdp", "population">>
        /\ wb_resp["gdp"].kind /= "rows" =>
            \A c \in WBCodes \ {""} :
                WBValue("population", c) /= None =>
                    \E i \in WBRecords(c) :
                        wb_enriched[1][i].population_gdp = WBValue("population", c)
        /\ wb_resp["population"].kind /= "rows" =>
            \A c \in WBCodes \ {""} :
                WBValue("gdp", c) /= None =>
                    \E i \in WBRecords(c) : wb_enriched[1][i].gdp = WBValue("gdp", c)

\* The GDP request failed and the population values are in the result.
C8_Witness ==
    /\ wb_pc = "done"
    /\ wb_resp["gdp"].kind = "fail"
    /\ wb_requests = <<"gdp", "population">>
    /\ \E i \in WBRecords("USA") :
        wb_enriched[1][i].gdp = None /\ wb_enriched[1][i].population_gdp = Some(5)

(***************************************************************************)
(* C9: fetch_gdp_data.main                                                 *)
(***************************************************************************)
\* The codes world_bank_data held when the run started.
FGPresentAtStart == {c \in DOMAIN fg_table0 : fg_table0[c] /= None}

\* C9: for every country code present in world_bank_data when the run
\* starts, no API request is issued, no INSERT is executed, and its row is
\* unchanged (throughout the run, and so at its end).
C9_ExistingUntouched ==
    \A c \in FGPresentAtStart :
        /\ \A i \in 1..Len(fg_requests) : fg_requests[i].code /= c
        /\ \A i \in 1..Len(fg_inserts) : fg_inserts[i] /= c
        /\ fg_table[c] = fg_table0[c]

\* The run ended having skipped a code that was present and having fetched
\* and inserted one that was not.
C9_Witness ==
    /\ fg_pc = "done"
    /\ "AFG" \in FGPresentAtStart
    /\ "ABW" \notin FGPresentAtStart
    /\ fg_inserts = <<"ABW">>
    /\ Len(fg_requests) = 4

(***************************************************************************)
(* C10: fetch_latest_value                                                 *)
(***************************************************************************)
FLRows == fl_resp.rows

\* Rows of the target year, and rows int() cannot parse the date of.
FLOfYear == {i \in 1..Len(FLRows) : FLRows[i].date.ok /\ FLRows[i].date.year = YEAR}
FLWellFormed == \A i \in 1..Len(FLRows) : FLRows[i].date.ok

FLValueOf(i) == IF FLRows[i].value = None THEN None ELSE Some(Float(FLRows[i].value[1]))

\* C10 (as stated): the result is the value of the first row in payload
\* order whose year equals the target year; it is None when no row of the
\* target year exists, when the payload is empty, or when the request fails.
C10_Original ==
    fl_pc = "done" =>
        /\ fl_resp.kind /= "rows" => fl_result = None
        /\ (fl_resp.kind = "rows" /\ FLWellFormed) =>
            fl_result = IF FLOfYear = {} THEN None ELSE FLValueOf(SetMin(FLOfYear))

\* Rows with a value, which are the rows the loop looks at the date of.
FLWithValue == {i \in 1..Len(FLRows) : FLRows[i].value /= None}
FLValid == FLWithValue \cap FLOfYear
FLUnparsable == {i \in FLWithValue : ~FLRows[i].date.ok}

\* C10 (amended): the result is the value (as a float) of the first row in
\* payload order whose value is non-null and whose year equals the target
\* year exactly; rows with a null value are passed over, rows of any other
\* year never contribute; the result is None when no such row exists, when
\* the payload is empty or short, when the request fails, or when a row with
\* a value and an unparsable date comes before the first such row.
C10_FirstValuedRowOfYear ==
    fl_pc = "done" =>
        fl_result =
            IF fl_resp.kind /= "rows" \/ FLValid = {} THEN None
            ELSE IF \E i \in FLUnparsable : i < SetMin(FLValid) THEN None
            ELSE FLValueOf(SetMin(FLValid))

\* The first row of the target year has no value and a later one supplies it.
C10_Witness ==
    /\ fl_pc = "done"
    /\ Len(FLRows) = 2
    /\ FLOfYear = {1, 2}
    /\ FLRows[1].value = None
    /\ fl_result = Some(Float(3))
(***************************************************************************)
(* C11  fetch_top_movies / fetch_flop_movies                               *)
(***************************************************************************)
TMEnded == tm_pc \in {"done", "raised"}

\* The page numbers of the robust_get calls made so far, in order.
TMPagesCalled == [i \in 1..Len(tm_calls) |-> tm_calls[i].page]

\* Page i came back with a response whose body holds a "results" list.
TMSucceeded(i) ==
    /\ tm_hist[i].res /= None
    /\ tm_hist[i].body[1].json
    /\ tm_hist[i].body[1].has

\* The results of the pages 1..k that succeeded, in page order.
RECURSIVE TMConcat(_)
TMConcat(k) ==
    IF k = 0 THEN <<>>
    ELSE TMConcat(k - 1) \o
         (IF TMSucceeded(k) THEN tm_hist[k].body[1].results ELSE <<>>)

\* C11 as stated: whenever the function has ended, the pages 1..pages were
\* each requested once in ascending order, and the result is the
\* concatenation of the results of the pages that succeeded.
C11_Original ==
    TMEnded =>
        /\ TMPagesCalled = [i \in 1..tm_pages |-> i]
        /\ tm_ret = Some(TMConcat(Len(tm_hist)))

\* C11 amended: without TMDB_API_KEY nothing is requested and the result is
\* empty.  With it, each function asks for its own query (revenue.desc, or
\* revenue.asc with vote_count.gte=10) for the pages 1, 2, ... in ascending
\* order, each once; a page for which robust_get gives up contributes
\* nothing and the next page is asked for; the loop stops early only when a
\* response that was handed back cannot be decoded as JSON, which raises;
\* otherwise all of 1..pages are asked for and the result is the
\* concatenation, in page order, of the results of the pages that succeeded.
C11_PagesInOrderWhenKeyed ==
    /\ ~tm_key => /\ tm_calls = <<>>
                  /\ tm_pc = "done" => tm_ret = Some(<<>>)
    /\ tm_calls = [i \in 1..Len(tm_calls) |-> DiscoverUrl(tm_kind, i)]
    /\ Len(tm_calls) <= tm_pages
    /\ Len(tm_hist) = Len(tm_calls)
    /\ tm_movies = TMConcat(IF tm_pc = "raised" THEN Len(tm_hist) - 1
                            ELSE Len(tm_hist))
    /\ \A i \in 1..Len(tm_hist) :
        (tm_hist[i].res /= None /\ ~tm_hist[i].body[1].json)
            <=> (tm_pc = "raised" /\ i = Len(tm_hist))
    /\ (tm_key /\ tm_pc = "done") =>
        /\ Len(tm_calls) = tm_pages
        /\ tm_ret = Some(TMConcat(tm_pages))

\* A run with the key set in which the first page failed after its retries,
\* a later page succeeded with movies, and the function returned them.
C11_Witness ==
    /\ tm_pc = "done"
    /\ tm_key
    /\ tm_pages >= 2
    /\ tm_hist[1].res = None
    /\ TMSucceeded(2)
    /\ tm_ret = Some(<<"b", "c">>)

(***************************************************************************)
(* C12  full-replace load                                                  *)
(***************************************************************************)
TLRows(table) == Range(table.rows)

\* C12: after loading A and then B the table holds exactly the rows of B,
\* in B's order, and no row that only A had; loading B once more changes
\* nothing.
C12_State ==
    tl_b /= None =>
        /\ tl_table = Some(TableOf(tl_b[1]))
        /\ tl_a /= None =>
            (TLRows(TableOf(tl_a[1])) \ TLRows(TableOf(tl_b[1])))
                \cap TLRows(tl_table[1]) = {}

C12_ReplaceLeavesOnlyLast ==
    /\ []C12_State
    /\ [][(tl_b /= None /\ tl_b' = tl_b /\ tl_n' = tl_n + 1)
            => tl_table' = tl_table]_vars

\* A was loaded, then a B that lacks one of A's rows and adds another.
C12_Witness ==
    /\ tl_a /= None
    /\ tl_b /= None
    /\ TLRows(TableOf(tl_a[1])) \ TLRows(TableOf(tl_b[1])) /= {}
    /\ TLRows(TableOf(tl_b[1])) \ TLRows(TableOf(tl_a[1])) /= {}
    /\ tl_table = Some(TableOf(tl_b[1]))

(***************************************************************************)
(* C13  CSV snapshot round trip                                            *)
(***************************************************************************)
\* The loaded cell reproduces the saved one: the same str, the same number
\* (whichever of int and float carries it), absent for absent.
SameValue(saved, loaded) ==
    CASE saved.t = "str" -> loaded.t = "str" /\ loaded.s = saved.s
      [] saved.t \in {"int", "float"} ->
            loaded.t \in {"int", "float"} /\ loaded.n = saved.n
      [] OTHER -> loaded.t \in {"null", "nan"}

\* C13: once a saved snapshot has been read, the load has succeeded and
\* has given the saved records back, field for field and in the same
\* order, empty strings and absent numbers included.
C13_RoundTrip ==
    cs_pc \in {"done", "raised"} =>
        /\ cs_pc = "done"
        /\ Len(cs_loaded[1].rows) = Len(cs_records)
        /\ \A i \in 1..Len(cs_records) : \A j \in 1..Len(cs_cols) :
            SameValue(cs_records[i][j], cs_loaded[1].rows[i][j])

(***************************************************************************)
(* C14, C15  train_model.py: the threshold loop                            *)
(***************************************************************************)
\* The rows of movies.csv that have a budget, a revenue and a release month.
TRKept == SelectSeq(tr_file[1],
                    LAMBDA r : r.budget /= None /\ r.revenue /= None /\ r.dated)

\* revenue > (t10 / 10) * budget
TRAbove(r, t10) == 10 * r.revenue[1] > t10 * r.budget[1]

\* The kept rows are mixed at the threshold: some are above it, some not.
TRMixed(t10) ==
    /\ \E i \in 1..Len(TRKept) : TRAbove(TRKept[i], t10)
    /\ \E i \in 1..Len(TRKept) : ~TRAbove(TRKept[i], t10)

\* The loop is over: a threshold was chosen or the script has exited.
TRLoopOver == tr_pc \in {"fit", "dump"} \/ (tr_pc = "done" /\ tr_file /= None)

\* The case of C14: no kept row above 2.0, mixed at 0.8.
TRCase14 ==
    /\ tr_file /= None
    /\ \A i \in 1..Len(TRKept) : ~TRAbove(TRKept[i], 20)
    /\ TRMixed(8)

\* C14 as stated: in that case training selects 0.8 and succeeds.
C14_Original ==
    (TRCase14 /\ TRLoopOver) =>
        /\ tr_selected = Some(8)
        /\ tr_pc = "done" => tr_exit = Some(0)

\* C14 amended: in that case the loop does not run out of thresholds; it
\* selects the first of 1.5, 1.0, 0.8 at which the kept rows are mixed,
\* which is 0.8 exactly when they are mixed at neither 1.5 nor 1.0; the
\* script then exits 0 with a model labelled at that threshold, or exits 1
\* because the training part of the split held one class only.
C14_SelectsFirstMixedBelowTwo ==
    (TRCase14 /\ TRLoopOver) =>
        /\ tr_selected /= None
        /\ tr_selected = Some(IF TRMixed(15) THEN 15
                              ELSE IF TRMixed(10) THEN 10 ELSE 8)
        /\ tr_pc = "done" =>
            \/ /\ tr_exit = Some(0)
               /\ tr_artifact /= None
               /\ tr_artifact[1].threshold = tr_selected[1]
            \/ /\ tr_exit = Some(1)
               /\ tr_artifact = tr_artifact0
               /\ \/ \A i \in (1..Len(TRKept)) \ tr_test : TRAbove(TRKept[i], tr_selected[1])
                  \/ \A i \in (1..Len(TRKept)) \ tr_test : ~TRAbove(TRKept[i], tr_selected[1])

\* Three kept rows, none above 2.0, mixed at 0.8 only; 0.8 was selected and
\* the model was written.
C14_Witness ==
    /\ TRCase14
    /\ ~TRMixed(15)
    /\ ~TRMixed(10)
    /\ tr_pc = "done"
    /\ tr_exit = Some(0)
    /\ tr_selected = Some(8)
    /\ tr_artifact = Some([threshold |-> 8, trained_on |-> 2])

\* The thresholds of C15, in tenths and in its order.
TRClaimed == <<20, 15, 10, 8>>

\* The first position of TRClaimed at which the kept rows are mixed (one
\* past the end if there is none).
TRFirstMixed ==
    IF \E k \in 1..Len(TRClaimed) : TRMixed(TRClaimed[k])
    THEN CHOOSE k \in 1..Len(TRClaimed) :
            /\ TRMixed(TRClaimed[k])
            /\ \A j \in 1..(k - 1) : ~TRMixed(TRClaimed[j])
    ELSE Len(TRClaimed) + 1

\* C15: the thresholds are tried in the order 2.0, 1.5, 1.0, 0.8 up to the
\* first at which the kept rows show both classes, and the labels are that
\* threshold's; when none of the four does, the script exits non-zero and
\* the model file is what it was before.
C15_FirstThresholdOrFail ==
    /\ tr_pc \in {"loop", "fit", "dump"} \/ (tr_pc = "done" /\ tr_file /= None) =>
        /\ Len(tr_tried) <= Len(TRClaimed)
        /\ tr_tried = SubSeq(TRClaimed, 1, Len(tr_tried))
        /\ Len(tr_tried) <= TRFirstMixed
    /\ (TRLoopOver /\ TRFirstMixed <= Len(TRClaimed)) =>
        /\ tr_selected = Some(TRClaimed[TRFirstMixed])
        /\ Len(tr_tried) = TRFirstMixed
        /\ tr_labels = [i \in 1..Len(TRKept) |-> TRAbove(TRKept[i], tr_selected[1])]
    /\ (TRLoopOver /\ TRFirstMixed > Len(TRClaimed)) =>
        /\ tr_pc = "done"
        /\ tr_tried = TRClaimed
        /\ tr_selected = None
        /\ tr_exit /= None /\ tr_exit /= Some(0)
        /\ tr_artifact = tr_artifact0

\* All kept rows have the same revenue-to-budget ratio, an earlier model
\* exists, and the script has exited non-zero leaving it in place.
C15_Witness ==
    /\ tr_file /= None
    /\ Len(TRKept) >= 2
    /\ \A k \in 1..Len(TRClaimed) : ~TRMixed(TRClaimed[k])
    /\ tr_pc = "done"
    /\ tr_exit = Some(1)
    /\ tr_artifact0 = Some(PriorArtifact)
    /\ tr_artifact = Some(PriorArtifact)

(***************************************************************************)
(* C18  fetch_gdp_data.main: what is inserted                              *)
(***************************************************************************)
\* The countries the loop is through with.
FGProcessed == {Countries[i] : i \in 1..(fg_idx - 1)}

\* What the request for the indicator and the code returned (None too when
\* no such request was made).
FGFetched(api, c) ==
    IF \E i \in 1..Len(fg_requests) : fg_requests[i].api = api /\ fg_requests[i].code = c
    THEN fg_requests[CHOOSE i \in 1..Len(fg_requests) :
                        fg_requests[i].api = api /\ fg_requests[i].code = c].value
    ELSE None

FGInserted == Range(fg_inserts)

\* C18: a processed code has a row inserted exactly if it was not in the
\* table at the start and one of its two fetched values is non-null; an
\* inserted row carries the fetched values, null where the value is
\* missing (so 0 only for a fetched 0) and never null in both; no code is
\* inserted twice and no INSERT fails.
C18_InsertedIffNewAndValued ==
    /\ fg_pc /= "crashed"
    /\ FGInserted \subseteq FGProcessed
    /\ \A i, j \in 1..Len(fg_inserts) : fg_inserts[i] = fg_inserts[j] => i = j
    /\ \A c \in FGProcessed :
        c \in FGInserted <=>
            /\ c \notin FGPresentAtStart
            /\ FGFetched(GDP_API, c) /= None \/ FGFetched(POP_API, c) /= None
    /\ \A c \in FGInserted :
        /\ fg_table[c] /= None
        /\ fg_table[c][1].gdp = FGFetched(GDP_API, c)
        /\ fg_table[c][1].population_gdp = None <=> FGFetched(POP_API, c) = None
        /\ fg_table[c][1].population_gdp /= None =>
            fg_table[c][1].population_gdp[1].val = FGFetched(POP_API, c)[1].val
        /\ ~(fg_table[c][1].gdp = None /\ fg_table[c][1].population_gdp = None)

\* A finished run in which one new code got a row with a null gdp and a
\* population of 0, and another new code, for which nothing was fetched,
\* got none.
C18_Witness ==
    /\ fg_pc = "done"
    /\ FGPresentAtStart = {}
    /\ fg_inserts = <<"ABW">>
    /\ fg_table["ABW"] = Some([gdp |-> None, population_gdp |-> Some(IntOfFloat(Float(0)))])
    /\ FGFetched(GDP_API, "AFG") = None
    /\ FGFetched(POP_API, "AFG") = None
    /\ fg_table["AFG"] = None

(***************************************************************************)
(* C19  fetch_language_market: the snapshot on failure and on success      *)
(***************************************************************************)
\* The snapshot holds one line per record, in order, with its fields.
LMSnapshotOf(csv, records) ==
    /\ Len(csv) = Len(records)
    /\ \A k \in 1..Len(records) :
        /\ csv[k].country = records[k].country
        /\ csv[k].capital = records[k].capital
        /\ csv[k].language_code = records[k].language_code
        /\ csv[k].language = records[k].language
        /\ csv[k].population = IntToStr(records[k].population)

C19_State ==
    /\ (lm_pc = "done" /\ ~lm_resp.ok) =>
        /\ lm_ret = Some(<<>>)
        /\ lm_csv \in {None, Some(PriorCsv)}
    /\ (lm_pc = "done" /\ lm_resp.ok) =>
        /\ lm_ret /= None
        /\ lm_csv /= None
        /\ LMSnapshotOf(lm_csv[1], lm_ret[1])

DPMissing(k) == dp_files[Tables[k].file] = None

\* The table of position k holds what its CSV file holds.
DPReplaced(k) ==
    /\ dp_files[Tables[k].file] /= None
    /\ dp_db[Tables[k].table] = Some(TableOf(ReadCsv(dp_files[Tables[k].file][1])))

DPUntouched(k) == dp_db[Tables[k].table] = dp_db0[Tables[k].table]

C17_State ==
    /\ \A k \in 1..Len(Tables) :
        /\ DPMissing(k) => DPUntouched(k)
        /\ (k < dp_i /\ ~DPMissing(k)) => DPReplaced(k)
        /\ k >= dp_i => DPUntouched(k)
    /\ dp_exit = Some(0) => dp_i = Len(Tables) + 1
    /\ (dp_exit /= None /\ dp_exit /= Some(0)) => ~DPMissing(dp_i)

\* C17: a table whose CSV file is missing keeps exactly what it held when
\* the script started; the loop goes from such a table on to the next one,
\* and a missing file never ends the script; every table the loop has
\* passed whose file exists holds its file's rows, and no other table has
\* changed.
C17_MissingLeftAlone ==
    /\ []C17_State
    /\ [][(dp_pc = "loop" /\ dp_i <= Len(Tables) /\ DPMissing(dp_i))
            => (dp_i' = dp_i + 1 /\ dp_pc' = "loop" /\ dp_db' = dp_db)]_vars

\* The script ended normally; genres.csv was missing and the genres table
\* still holds its earlier rows, while the later world_bank_data table was
\* replaced by its file's.
C17_Witness ==
    /\ dp_pc = "done"
    /\ dp_exit = Some(0)
    /\ dp_files["genres.csv"] = None
    /\ dp_db["genres"] = Some(PriorTable)
    /\ dp_files["world_bank_data.csv"] = Some(OneLineFile)
    /\ dp_db["world_bank_data"] = Some(TableOf(ReadCsv(OneLineFile)))
    /\ dp_db["world_bank_data"] /= dp_db0["world_bank_data"]


(***************************************************************************)
(* C16  run_all.main runs the scripts in the listed order, one at a time;  *)
(* a script starts only if every earlier one returned 0; at the first      *)
(* non-zero return code the run ends with exit code 1, no later script     *)
(* runs and the dashboard is not launched.                                 *)
(***************************************************************************)
ListedOrder ==
    <<"init_db.py", "country_api.py", "world_bank_api.py", "fetch_gdp_data.py",
      "populate_missing_tables.py", "data_pipeline.py", "train_model.py">>

IsPrefix(s, t) == Len(s) <= Len(t) /\ \A k \in 1..Len(s) : s[k] = t[k]

PLFailedAt(k) == k \in 1..Len(pl_codes) /\ pl_codes[k] /= 0

PLRunning(name) ==
    /\ pl_pc = "wait"
    /\ pl_started /= <<>>
    /\ pl_started[Len(pl_started)] = name

C16_State ==
    /\ IsPrefix(pl_started, ListedOrder)
    /\ Len(pl_codes) <= Len(pl_started)
    /\ Len(pl_started) <= Len(pl_codes) + 1
    /\ Len(pl_started) = Len(pl_codes) + 1 => pl_pc = "wait"
    /\ fg_pc /= "done" => PLRunning("fetch_gdp_data.py")
    /\ dp_pc /= "done" => PLRunning("data_pipeline.py")
    /\ tr_pc /= "done" => PLRunning("train_model.py")
    /\ \A k \in 1..Len(pl_started) : \A j \in 1..(k - 1) :
          j <= Len(pl_codes) /\ pl_codes[j] = 0
    /\ \A k \in 1..Len(pl_codes) :
          PLFailedAt(k) => /\ k = Len(pl_started)
                           /\ pl_pc = "done"
                           /\ pl_exit = Some(1)
                           /\ ~pl_dashboard
    /\ pl_dashboard => /\ pl_started = ListedOrder
                       /\ \A k \in 1..Len(ListedOrder) : pl_codes[k] = 0

\* C16: the scripts start in the listed order, one at a time and only after
\* every earlier one returned 0; after the first non-zero return code the
\* run has exit code 1, and from then on no script is started, no table,
\* file or model changes and the dashboard is not launched.
C16_OrderedStopAtFirstFailure ==
    /\ []C16_State
    /\ [][(\E k \in 1..Len(pl_codes) : PLFailedAt(k))
            => UNCHANGED <<pl_started, pl_codes, pl_dashboard, pl_exit,
                           dp_db, dp_files, tr_artifact>>]_vars

\* populate_missing_tables.py, the fifth script, failed after four scripts
\* that returned 0, and the run ended there.
C16_Witness ==
    /\ pl_pc = "done"
    /\ Len(pl_started) = 5
    /\ pl_codes = <<0, 0, 0, 0, 1>>
    /\ pl_exit = Some(1)
    /\ ~pl_dashboard

(***************************************************************************)
(* C20  After the scripts have run in the listed order with                *)
(* data/world_bank_data.csv present, world_bank_data holds exactly the     *)
(* rows of the file; the rows the incremental fetch inserted are gone.     *)
(***************************************************************************)
PLCsv == dp_files["world_bank_data.csv"]

\* The script `name` has returned 0 in this run.
PLReturnedZero(name) ==
    \E k \in 1..Len(pl_codes) : pl_started[k] = name /\ pl_codes[k] = 0

PLTableIsCsv ==
    /\ PLCsv /= None
    /\ ~ReadRaises(PLCsv[1])
    /\ dp_db["world_bank_data"] = Some(TableOf(ReadCsv(PLCsv[1])))

PLHasCode(c) ==
    /\ dp_db["world_bank_data"] /= None
    /\ \E i \in 1..Len(dp_db["world_bank_data"][1].rows) :
          dp_db["world_bank_data"][1].rows[i][1] = JStr(CodeChars[c])

\* C20: from the moment a full-replace load of the run has returned 0 until
\* the end of the run, and at the end of every run in which all the scripts
\* were started with the file present, world_bank_data is exactly the rows
\* of data/world_bank_data.csv; a code the fetch inserted is in the table
\* only if the file has it.
C20_TableIsCsvAfterLoads ==
    /\ [](PLReturnedZero("populate_missing_tables.py") => PLTableIsCsv)
    /\ [](PLReturnedZero("data_pipeline.py") /\ PLCsv /= None => PLTableIsCsv)
    /\ [](pl_pc = "done" /\ pl_started = ListedOrder /\ PLCsv /= None => PLTableIsCsv)

\* The run went through to the dashboard, the fetch had inserted a row, and
\* the table is the file's rows, without the inserted code.
C20_Witness ==
    /\ pl_pc = "done"
    /\ pl_dashboard
    /\ pl_inserted /= <<>>
    /\ PLTableIsCsv
    /\ ~PLHasCode(pl_inserted[1])

====
